---- MODULE Spec2Model ----
(***************************************************************************)
(* A model of the PPT embedded-object extractor: PPTExtractor              *)
(* (ppt_extractor.py), FileTypeDetector (file_type_detector.py), the       *)
(* ErrorHandler classification (error_handler.py) and the OLE root-name    *)
(* read of deep_analysis.py.                                               *)
(*                                                                         *)
(* Python strings are TLA+ strings (TLC evaluates Len, \o and SubSeq on    *)
(* them); positions are 1-based here and 0-based in the source.  Byte      *)
(* buffers are sparse: a length and the bytes at the offsets that are not  *)
(* zero.                                                                   *)
(***************************************************************************)
EXTENDS Integers, Sequences, FiniteSets, TLC

(***************************************************************************)
(* Bounds of the model.                                                    *)
(***************************************************************************)
\* the number of entries a container holds besides its fixed ones
MaxParts == 3
\* the number of environment faults (unreadable entry, failed write) in a run
MaxFaults == 1
\* the number of Relationship elements drawn for the sidecars of SpecRels
MaxRelElems == 3

(***************************************************************************)
(* Python str operations.                                                  *)
(***************************************************************************)
Max(S) == CHOOSE m \in S : \A n \in S : n <= m

Min(S) == CHOOSE m \in S : \A n \in S : m <= n

\* s[i-1]
Char(s, i) == SubSeq(s, i, i)

\* s[n:]
From(s, n) == SubSeq(s, n + 1, Len(s))

\* s.startswith(p)
StartsWith(s, p) == Len(p) <= Len(s) /\ SubSeq(s, 1, Len(p)) = p

\* s.endswith(p)
EndsWith(s, p) == Len(p) <= Len(s) /\ SubSeq(s, Len(s) - Len(p) + 1, Len(s)) = p

\* sub in s
Contains(s, sub) ==
    \E i \in 1..(Len(s) - Len(sub) + 1) : SubSeq(s, i, i + Len(sub) - 1) = sub

\* s.rfind(c) + 1 for a one-character c: 0 when c does not occur
LastIndexOf(s, c) ==
    LET I == {i \in 1..Len(s) : Char(s, i) = c}
    IN  IF I = {} THEN 0 ELSE Max(I)

\* s.replace(old, new): every non-overlapping occurrence, left to right
RECURSIVE Replace(_, _, _)
Replace(s, old, new) ==
    IF Len(old) = 0 \/ Len(s) < Len(old) THEN s
    ELSE IF StartsWith(s, old)
         THEN new \o Replace(From(s, Len(old)), old, new)
         ELSE Char(s, 1) \o Replace(From(s, 1), old, new)

UpperLetters == "ABCDEFGHIJKLMNOPQRSTUVWXYZ"

LowerLetters == "abcdefghijklmnopqrstuvwxyz"

LowerChar(c) ==
    LET I == {i \in 1..Len(UpperLetters) : Char(UpperLetters, i) = c}
    IN  IF I = {} THEN c ELSE Char(LowerLetters, CHOOSE i \in I : TRUE)

\* s.lower(), on ASCII letters
RECURSIVE Lower(_)
Lower(s) == IF Len(s) = 0 THEN s ELSE LowerChar(Char(s, 1)) \o Lower(From(s, 1))

IsSpace(c) == c \in {" ", "\t", "\n", "\r", "\f"}

\* s.strip()
Strip(s) ==
    LET I == {i \in 1..Len(s) : ~IsSpace(Char(s, i))}
    IN  IF I = {} THEN "" ELSE SubSeq(s, Min(I), Max(I))

\* os.path.basename(p)
Basename(p) == From(p, LastIndexOf(p, "/"))

\* os.path.splitext(p): the extension starts at the last dot of the last
\* component, unless only dots come before it in that component
SplitExt(p) ==
    LET sep == LastIndexOf(p, "/")
        dot == LastIndexOf(p, ".")
    IN  IF dot > sep /\ \E i \in (sep + 1)..(dot - 1) : Char(p, i) # "."
        THEN <<SubSeq(p, 1, dot - 1), From(p, dot - 1)>>
        ELSE <<p, "">>

\* os.path.join(a, b)
PathJoin(a, b) ==
    IF StartsWith(b, "/") THEN b
    ELSE IF a = "" \/ EndsWith(a, "/") THEN a \o b
    ELSE a \o "/" \o b

(***************************************************************************)
(* A Python dict: the keys in insertion order, each with its value.  An    *)
(* assignment to a key the dict holds keeps the key's place.               *)
(***************************************************************************)
DictHas(d, k) == \E i \in 1..Len(d) : d[i].key = k

DictGet(d, k) == d[CHOOSE i \in 1..Len(d) : d[i].key = k].value

DictSet(d, k, v) ==
    IF DictHas(d, k)
    THEN [i \in 1..Len(d) |-> IF d[i].key = k THEN [key |-> k, value |-> v] ELSE d[i]]
    ELSE Append(d, [key |-> k, value |-> v])

(***************************************************************************)
(* Byte buffers.  A buffer is [len, bytes, nested]: bytes maps the offsets *)
(* that are set to their values and every other offset below len is 0;     *)
(* nested is what zipfile.ZipFile(io.BytesIO(data)) makes of the buffer:   *)
(* whether it opens, its namelist() and the markers that                   *)
(* [Content_Types].xml holds ("" for none, "unreadable" when the read      *)
(* raises).                                                                *)
(***************************************************************************)
NoNested == [ok |-> FALSE, names |-> <<>>, content_types |-> ""]

Bytes(off, seq) == [i \in off..(off + Len(seq) - 1) |-> seq[i - off + 1]]

\* file_data[i]
Byte(buf, i) == IF i \in DOMAIN buf.bytes THEN buf.bytes[i] ELSE 0

\* file_data.startswith(sig)
BufStartsWith(buf, sig) ==
    Len(sig) <= buf.len /\ \A k \in 1..Len(sig) : Byte(buf, k - 1) = sig[k]

\* bytes.lower() of one byte
LowerByte(b) == IF b \in 65..90 THEN b + 32 ELSE b

\* pat in file_data[:limit].lower() (lower = TRUE) or pat in file_data[:limit];
\* the patterns searched start with a byte that is not 0, so a match starts
\* at an offset that is set
BufContains(buf, limit, pat, lower) ==
    LET n == IF limit < buf.len THEN limit ELSE buf.len
    IN  \E i \in DOMAIN buf.bytes :
            /\ i + Len(pat) <= n
            /\ \A k \in 1..Len(pat) :
                   (IF lower THEN LowerByte(Byte(buf, i + k - 1))
                    ELSE Byte(buf, i + k - 1)) = pat[k]

\* struct.unpack('<H', ...) and struct.unpack('<L', ...) at offset off
LE16(buf, off) == Byte(buf, off) + 256 * Byte(buf, off + 1)

LE32(buf, off) == LE16(buf, off) + 65536 * LE16(buf, off + 2)

(***************************************************************************)
(* FileTypeDetector.                                                       *)
(***************************************************************************)
OleSignature == <<208, 207, 17, 224, 161, 177, 26, 225>>

\* self.file_signatures, in insertion order
file_signatures ==
    << [sig |-> <<80, 75, 3, 4>>, type |-> "zip_based"],
       [sig |-> <<80, 75, 5, 6>>, type |-> "zip_based"],
       [sig |-> <<80, 75, 7, 8>>, type |-> "zip_based"],
       [sig |-> OleSignature, type |-> "ole_compound"],
       [sig |-> <<37, 80, 68, 70>>, type |-> "pdf"],
       [sig |-> <<123, 92, 114, 116, 102, 49>>, type |-> "rtf"],
       [sig |-> <<123, 92, 114, 116, 102>>, type |-> "rtf"],
       [sig |-> <<255, 216, 255>>, type |-> "jpeg"],
       [sig |-> <<137, 80, 78, 71, 13, 10, 26, 10>>, type |-> "png"],
       [sig |-> <<71, 73, 70, 56>>, type |-> "gif"],
       [sig |-> <<66, 77>>, type |-> "bmp"],
       [sig |-> <<73, 68, 51>>, type |-> "mp3"],
       [sig |-> <<255, 251>>, type |-> "mp3"],
       [sig |-> <<82, 73, 70, 70>>, type |-> "wav_or_avi"],
       [sig |-> <<0, 0, 0, 24, 102, 116, 121, 112>>, type |-> "mp4"],
       [sig |-> <<0, 0, 0, 32, 102, 116, 121, 112>>, type |-> "mp4"],
       [sig |-> <<255, 254>>, type |-> "utf16_le"],
       [sig |-> <<254, 255>>, type |-> "utf16_be"],
       [sig |-> <<239, 187, 191>>, type |-> "utf8_bom"],
       [sig |-> <<31, 139>>, type |-> "gzip"],
       [sig |-> <<66, 90, 104>>, type |-> "bzip2"],
       [sig |-> <<55, 122, 188, 175, 39, 28>>, type |-> "7zip"],
       [sig |-> <<77, 90>>, type |-> "exe"],
       [sig |-> <<127, 69, 76, 70>>, type |-> "elf"] >>

\* the keys of self.mime_types
mime_types ==
    {"docx", "xlsx", "pptx", "doc", "xls", "ppt", "pdf", "rtf", "txt", "jpeg",
     "png", "gif", "bmp", "mp3", "wav", "mp4", "avi", "zip", "exe"}

\* the keys of self.type_descriptions
type_descriptions == mime_types \cup {"unknown"}

\* self.mime_types.get(t, 'application/octet-stream'); the value is written
\* "mime:<key>"
MimeOf(t) == IF t \in mime_types THEN "mime:" \o t ELSE "application/octet-stream"

\* self.type_descriptions.get(t, default); the localized text is written
\* "desc:<key>"
DescOf(t, default) == IF t \in type_descriptions THEN "desc:" \o t ELSE default

\* _detect_by_signature without lines 189-193
_detect_by_signature_table_only(file_data) ==
    LET M == {i \in 1..Len(file_signatures) :
                 BufStartsWith(file_data, file_signatures[i].sig)}
    IN  IF M # {} THEN file_signatures[Min(M)].type ELSE ""

\* _detect_by_signature: "" stands for None
_detect_by_signature(file_data) ==
    LET M == {i \in 1..Len(file_signatures) :
                 BufStartsWith(file_data, file_signatures[i].sig)}
    IN  IF M # {} THEN file_signatures[Min(M)].type
        ELSE IF file_data.len >= 8
                /\ \A k \in 1..4 : Byte(file_data, 3 + k) = <<102, 116, 121, 112>>[k]
             THEN "mp4"
             ELSE ""

\* _detect_office_document with lines 207-208 after lines 209-210
_detect_office_document_xlsx_first(file_data) ==
    LET zf == file_data.nested
        listed(n) == \E i \in 1..Len(zf.names) : zf.names[i] = n
    IN  IF ~zf.ok THEN ""
        ELSE IF listed("xl/workbook.xml") THEN "xlsx"
        ELSE IF listed("word/document.xml") THEN "docx"
        ELSE IF listed("ppt/presentation.xml") THEN "pptx"
        ELSE IF listed("[Content_Types].xml")
             THEN IF Contains(zf.content_types, "wordprocessingml") THEN "docx"
                  ELSE IF Contains(zf.content_types, "spreadsheetml") THEN "xlsx"
                  ELSE IF Contains(zf.content_types, "presentationml") THEN "pptx"
                  ELSE ""
             ELSE ""

\* _detect_office_document without the try of line 201: what zipfile.ZipFile
\* raises leaves the function in the place of a value
_detect_office_document_unguarded(file_data) ==
    LET zf == file_data.nested
        listed(n) == \E i \in 1..Len(zf.names) : zf.names[i] = n
    IN  IF ~zf.ok THEN "BadZipFile"
        ELSE IF listed("word/document.xml") THEN "docx"
        ELSE IF listed("xl/workbook.xml") THEN "xlsx"
        ELSE IF listed("ppt/presentation.xml") THEN "pptx"
        ELSE IF listed("[Content_Types].xml")
             THEN IF Contains(zf.content_types, "wordprocessingml") THEN "docx"
                  ELSE IF Contains(zf.content_types, "spreadsheetml") THEN "xlsx"
                  ELSE IF Contains(zf.content_types, "presentationml") THEN "pptx"
                  ELSE ""
             ELSE ""

\* _detect_office_document: "" stands for None
_detect_office_document(file_data) ==
    LET zf == file_data.nested
        listed(n) == \E i \in 1..Len(zf.names) : zf.names[i] = n
    IN  IF ~zf.ok THEN ""
        ELSE IF listed("word/document.xml") THEN "docx"
        ELSE IF listed("xl/workbook.xml") THEN "xlsx"
        ELSE IF listed("ppt/presentation.xml") THEN "pptx"
        ELSE IF listed("[Content_Types].xml")
             THEN IF Contains(zf.content_types, "wordprocessingml") THEN "docx"
                  ELSE IF Contains(zf.content_types, "spreadsheetml") THEN "xlsx"
                  ELSE IF Contains(zf.content_types, "presentationml") THEN "pptx"
                  ELSE ""
             ELSE ""

\* _detect_ole_document: "" stands for None
_detect_ole_document(file_data) ==
    LET has(pat) == BufContains(file_data, 4096, pat, TRUE)
    IN  IF has(<<109, 105, 99, 114, 111, 115, 111, 102, 116, 32, 111, 102, 102,
                  105, 99, 101, 32, 119, 111, 114, 100>>)
           \/ has(<<119, 111, 114, 100, 46, 100, 111, 99, 117, 109, 101, 110, 116>>)
        THEN "doc"
        ELSE IF has(<<109, 105, 99, 114, 111, 115, 111, 102, 116, 32, 111, 102,
                      102, 105, 99, 101, 32, 101, 120, 99, 101, 108>>)
                \/ has(<<101, 120, 99, 101, 108, 46, 115, 104, 101, 101, 116>>)
        THEN "xls"
        ELSE IF has(<<109, 105, 99, 114, 111, 115, 111, 102, 116, 32, 111, 102,
                      102, 105, 99, 101, 32, 112, 111, 119, 101, 114, 112, 111,
                      105, 110, 116>>)
                \/ has(<<112, 111, 119, 101, 114, 112, 111, 105, 110, 116, 46,
                         115, 108, 105, 100, 101>>)
        THEN "ppt"
        ELSE IF has(<<119, 111, 114, 100, 112, 97, 100>>) THEN "doc"
        ELSE ""

\* _detect_by_extension: "" stands for None
_detect_by_extension(file_path) ==
    IF file_path = "" THEN ""
    ELSE LET ext == From(SplitExt(Lower(file_path))[2], 1)
         IN  IF ext \in type_descriptions THEN ext
             ELSE CASE ext = "htm" -> "html"
                    [] ext = "jpeg" -> "jpg"
                    [] ext = "tiff" -> "tif"
                    [] ext = "mpeg" -> "mpg"
                    [] OTHER -> ""

\* c.isprintable() or c.isspace() for the code point of an ASCII byte
PrintableOrSpace(b) == b \in 9..13 \/ b \in 28..126

\* _is_text_file.  decode('utf-8', errors='ignore') drops every byte that is
\* part of no valid sequence; the buffers of this model hold no valid
\* multi-byte sequence, so it drops the bytes from 128 on.  ratio > 0.7 is
\* compared in integers.
_is_text_file(file_data) ==
    LET sample_size == IF 1024 < file_data.len THEN 1024 ELSE file_data.len
        S == {i \in DOMAIN file_data.bytes : i < sample_size}
        dropped == Cardinality({i \in S : file_data.bytes[i] >= 128})
        text_len == sample_size - dropped
        printable_chars == Cardinality({i \in S : PrintableOrSpace(file_data.bytes[i])})
    IN  text_len > 0 /\ 10 * printable_chars > 7 * text_len

Triple(e, d, m) == [ext |-> e, desc |-> d, mime |-> m]

\* detect_file_type, lines 126-163: the triple for a buffer whose signature
\* was found
DetectBySignature(file_data, detected_type) ==
    LET office_type == _detect_office_document(file_data)
        ole_type == _detect_ole_document(file_data)
    IN  IF detected_type = "zip_based"
        THEN IF office_type # ""
             THEN Triple("." \o office_type, DescOf(office_type, "desc:office"),
                         MimeOf(office_type))
             ELSE Triple(".zip", "desc:zip", "mime:zip")
        ELSE IF detected_type = "ole_compound"
        THEN IF ole_type # ""
             THEN Triple("." \o ole_type, DescOf(ole_type, "desc:ole"), MimeOf(ole_type))
             ELSE Triple(".ole", "desc:ole_compound", "application/octet-stream")
        ELSE IF detected_type = "wav_or_avi"
        THEN IF BufContains(file_data, 100, <<87, 65, 86, 69>>, FALSE)
             THEN Triple(".wav", "desc:wav", "mime:wav")
             ELSE IF BufContains(file_data, 100, <<65, 86, 73, 32>>, FALSE)
             THEN Triple(".avi", "desc:avi", "mime:avi")
             ELSE Triple(".riff", "desc:riff", "application/octet-stream")
        ELSE Triple("." \o detected_type,
                    DescOf(detected_type, "DESC:" \o detected_type),
                    MimeOf(detected_type))

\* detect_file_type, lines 165-179: the triple for a buffer without
\* signature
DetectByPath(file_data, file_path) ==
    LET path_ext == _detect_by_extension(file_path)
    IN  IF path_ext # ""
        THEN Triple("." \o path_ext, DescOf(path_ext, "DESC:" \o path_ext),
                    MimeOf(path_ext))
        ELSE IF _is_text_file(file_data)
        THEN Triple(".txt", "desc:txt", "mime:txt")
        ELSE Triple(".bin", "desc:unknown", "application/octet-stream")

\* detect_file_type with the extension of the path consulted before the
\* signature
detect_file_type_path_first(file_data, file_path) ==
    IF _detect_by_extension(file_path) # ""
    THEN DetectByPath(file_data, file_path)
    ELSE IF _detect_by_signature(file_data) # ""
    THEN DetectBySignature(file_data, _detect_by_signature(file_data))
    ELSE DetectByPath(file_data, file_path)

\* detect_file_type: the triple (extension, description, MIME)
detect_file_type(file_data, file_path) ==
    LET detected_type == _detect_by_signature(file_data)
    IN  IF detected_type # ""
        THEN DetectBySignature(file_data, detected_type)
        ELSE DetectByPath(file_data, file_path)

\* get_file_category
get_file_category(file_type) ==
    LET t == Lower(file_type)
    IN  CASE t \in {"doc", "docx", "pdf", "rtf", "txt", "odt"} -> "document"
          [] t \in {"xls", "xlsx", "ods", "csv"} -> "spreadsheet"
          [] t \in {"ppt", "pptx", "odp"} -> "presentation"
          [] t \in {"jpg", "jpeg", "png", "gif", "bmp", "tiff", "tif", "svg"} -> "image"
          [] t \in {"mp3", "wav", "wma", "aac", "flac", "ogg"} -> "audio"
          [] t \in {"mp4", "avi", "mkv", "mov", "wmv", "flv", "webm"} -> "video"
          [] t \in {"zip", "rar", "7z", "tar", "gz", "bz2"} -> "archive"
          [] t \in {"exe", "msi", "deb", "rpm", "dmg"} -> "executable"
          [] OTHER -> "other"

(***************************************************************************)
(* The OLE root-name read of deep_analysis.analyze_ppt_for_original_names. *)
(***************************************************************************)
sector_size == 512

\* the name of the reserved token the read compares with: '\x01Ole'
OleReserved == <<1, 79, 108, 101>>

\* the code unit is a high (0xD800..0xDBFF) or a low (0xDC00..0xDFFF)
\* surrogate
HighSurrogate(u) == u \in 55296..56319

LowSurrogate(u) == u \in 56320..57343

\* bytes.decode('utf-16le') does not raise: every high surrogate is followed
\* by a low one and every low one follows a high one
Utf16Valid(units) ==
    \A k \in 1..Len(units) :
        /\ HighSurrogate(units[k]) => (k < Len(units) /\ LowSurrogate(units[k + 1]))
        /\ LowSurrogate(units[k]) => (k > 1 /\ HighSurrogate(units[k - 1]))

\* len() of the decoded str: a surrogate pair is one character
StrLen(units) == Len(units) - Cardinality({k \in 1..Len(units) : HighSurrogate(units[k])})

\* the read without the test of line 117, dir_offset + 128 <= len(embed_data)
ole_root_name_unfitted(embed_data) ==
    LET dir_first_sector == LE32(embed_data, 48)
        dir_offset == (dir_first_sector + 1) * sector_size
        name_len == LE16(embed_data, dir_offset + 64)
        n_bytes == IF name_len >= 2 THEN name_len - 2 ELSE 128 + name_len - 2
        ole_name == [k \in 1..(n_bytes \div 2) |->
                        LE16(embed_data, dir_offset + 2 * (k - 1))]
    IN  IF /\ BufStartsWith(embed_data, OleSignature)
           /\ embed_data.len > 76
           /\ dir_first_sector < embed_data.len \div sector_size
           /\ name_len > 0 /\ name_len <= 64
           /\ n_bytes % 2 = 0
           /\ Utf16Valid(ole_name)
           /\ ole_name # <<>> /\ ole_name # OleReserved /\ StrLen(ole_name) > 1
        THEN ole_name
        ELSE <<>>

\* The UTF-16 code units of the name the read prints, <<>> when it prints
\* none.  dir_entry[:name_len-2] with name_len = 1 is dir_entry[:-1], 127
\* bytes; an odd number of bytes, or a surrogate without its partner, makes
\* decode('utf-16le') raise, which the read passes over.
ole_root_name(embed_data) ==
    LET dir_first_sector == LE32(embed_data, 48)
        dir_offset == (dir_first_sector + 1) * sector_size
        name_len == LE16(embed_data, dir_offset + 64)
        n_bytes == IF name_len >= 2 THEN name_len - 2 ELSE 128 + name_len - 2
        ole_name == [k \in 1..(n_bytes \div 2) |->
                        LE16(embed_data, dir_offset + 2 * (k - 1))]
    IN  IF /\ BufStartsWith(embed_data, OleSignature)
           /\ embed_data.len > 76
           /\ dir_first_sector < embed_data.len \div sector_size
           /\ dir_offset + 128 <= embed_data.len
           /\ name_len > 0 /\ name_len <= 64
           /\ n_bytes % 2 = 0
           /\ Utf16Valid(ole_name)
           /\ ole_name # <<>> /\ ole_name # OleReserved /\ StrLen(ole_name) > 1
        THEN ole_name
        ELSE <<>>

\* the offsets of embed_data the read slices: bytes 48..51 of the header
\* (line 114) and the 128 bytes of the directory entry (line 119)
ole_offsets(embed_data) ==
    LET dir_first_sector == LE32(embed_data, 48)
        dir_offset == (dir_first_sector + 1) * sector_size
    IN  IF ~(BufStartsWith(embed_data, OleSignature) /\ embed_data.len > 76)
        THEN {}
        ELSE IF /\ dir_first_sector < embed_data.len \div sector_size
                /\ dir_offset + 128 <= embed_data.len
        THEN (48..51) \cup (dir_offset..(dir_offset + 127))
        ELSE 48..51

Digits == "0123456789"

\* chr(u) for the code unit of an ASCII letter, digit, space, dot or
\* underscore; "?" stands for every other character
UnitChar(u) ==
    IF u \in 65..90 THEN Char(UpperLetters, u - 64)
    ELSE IF u \in 97..122 THEN Char(LowerLetters, u - 96)
    ELSE IF u \in 48..57 THEN Char(Digits, u - 47)
    ELSE IF u = 32 THEN " "
    ELSE IF u = 46 THEN "."
    ELSE IF u = 95 THEN "_"
    ELSE "?"

\* the str of a sequence of code units
RECURSIVE UnitsToString(_)
UnitsToString(units) ==
    IF units = <<>> THEN ""
    ELSE UnitChar(units[1]) \o UnitsToString(Tail(units))

(***************************************************************************)
(* The byte buffers of the model's containers.                             *)
(***************************************************************************)
\* an OLE compound file cut short of its directory sector, with the
\* "Word.Document.8" class marker
OleDocA ==
    [len |-> 600,
     bytes |-> Bytes(0, OleSignature) @@ Bytes(48, <<1, 0, 0, 0>>)
               @@ Bytes(520, <<87, 111, 114, 100, 46, 68, 111, 99, 117, 109,
                               101, 110, 116, 46, 56>>),
     nested |-> NoNested]

\* the same with another length
OleDocB == [OleDocA EXCEPT !.len = 700]

\* an OLE compound file whose directory (sector 1) starts with the entry
\* "Budget" (name length 14 with the terminator), with the "Excel.Sheet.8"
\* class marker
OleBudget ==
    [len |-> 1536,
     bytes |-> Bytes(0, OleSignature) @@ Bytes(48, <<1, 0, 0, 0>>)
               @@ Bytes(600, <<69, 120, 99, 101, 108, 46, 83, 104, 101, 101,
                               116, 46, 56>>)
               @@ Bytes(1024, <<66, 0, 117, 0, 100, 0, 103, 0, 101, 0, 116, 0>>)
               @@ Bytes(1088, <<14, 0>>),
     nested |-> NoNested]

PngA ==
    [len |-> 64, bytes |-> Bytes(0, <<137, 80, 78, 71, 13, 10, 26, 10>>),
     nested |-> NoNested]

PngB == [PngA EXCEPT !.len = 96]

DocxA ==
    [len |-> 900, bytes |-> Bytes(0, <<80, 75, 3, 4>>),
     nested |-> [ok |-> TRUE,
                 names |-> <<"[Content_Types].xml", "word/document.xml">>,
                 content_types |-> "wordprocessingml"]]

XlsxA ==
    [len |-> 800, bytes |-> Bytes(0, <<80, 75, 3, 4>>),
     nested |-> [ok |-> TRUE, names |-> <<"xl/workbook.xml">>,
                 content_types |-> ""]]

Empty == [len |-> 0, bytes |-> <<>>, nested |-> NoNested]

\* zip_file.read(path) of an entry, by the name of its buffer
Blob(name) ==
    CASE name = "OleDocA" -> OleDocA
      [] name = "OleDocB" -> OleDocB
      [] name = "OleBudget" -> OleBudget
      [] name = "PngA" -> PngA
      [] name = "PngB" -> PngB
      [] name = "DocxA" -> DocxA
      [] name = "XlsxA" -> XlsxA
      [] OTHER -> Empty

(***************************************************************************)
(* The XML entries of a container, as ElementTree reads them.  An          *)
(* attribute is [has, v]: element.get(name) is None when has is FALSE.     *)
(* A relationship sidecar is the list of its Relationship elements; a      *)
(* slide is the list of its shapes in document order, each with the first  *)
(* p:cNvPr below it and, for a p:graphicFrame, the first p:oleObj below    *)
(* it.  wellformed is FALSE when zip_file.read or ET.fromstring raises.    *)
(***************************************************************************)
Attr(v) == [has |-> TRUE, v |-> v]

NoAttr == [has |-> FALSE, v |-> ""]

\* bool(element.get(name))
Truthy(a) == a.has /\ a.v # ""

NoXml == [wellformed |-> FALSE, rels |-> <<>>, shapes |-> <<>>]

Entry(path, blob, xml) == [path |-> path, blob |-> blob, xml |-> xml]

Sidecar(path, wellformed, rels) ==
    Entry(path, "", [wellformed |-> wellformed, rels |-> rels, shapes |-> <<>>])

Slide(path, wellformed, shapes) ==
    Entry(path, "", [wellformed |-> wellformed, rels |-> <<>>, shapes |-> shapes])

Rel(id, target, type) == [Id |-> id, Target |-> target, Type |-> type]

Frame(name, rid) ==
    [tag |-> "graphicFrame", cNvPr |-> TRUE, name |-> name, oleObj |-> TRUE, rid |-> rid]

\* a p:pic element with its p:cNvPr: a shape that holds no OLE object
Pic(name) ==
    [tag |-> "pic", cNvPr |-> TRUE, name |-> name, oleObj |-> FALSE, rid |-> NoAttr]

\* a p:graphicFrame element with a p:oleObj and no p:cNvPr below it
BareFrame(rid) ==
    [tag |-> "graphicFrame", cNvPr |-> FALSE, name |-> NoAttr, oleObj |-> TRUE, rid |-> rid]

OleType == "http://schemas.openxmlformats.org/officeDocument/2006/relationships/oleObject"

(***************************************************************************)
(* PPTExtractor._parse_relationships.                                      *)
(***************************************************************************)
\* lines 280-289 with line 285 testing rel_id alone
RECURSIVE AddRelationships_id_only(_, _)
AddRelationships_id_only(relationships, elems) ==
    IF elems = <<>> THEN relationships
    ELSE LET r == Head(elems)
         IN  AddRelationships_id_only(
                 IF Truthy(r.Id)
                 THEN DictSet(relationships, r.Id.v,
                              [target |-> r.Target.v, type |-> r.Type])
                 ELSE relationships,
                 Tail(elems))

\* lines 280-289: the Relationship elements of one sidecar
RECURSIVE AddRelationships(_, _)
AddRelationships(relationships, elems) ==
    IF elems = <<>> THEN relationships
    ELSE LET r == Head(elems)
         IN  AddRelationships(
                 IF Truthy(r.Id) /\ Truthy(r.Target)
                 THEN DictSet(relationships, r.Id.v,
                              [target |-> r.Target.v, type |-> r.Type])
                 ELSE relationships,
                 Tail(elems))

\* lines 272-292: every entry whose name ends with .rels, in namelist order;
\* a sidecar that does not parse adds nothing
RECURSIVE ParseRelFiles(_, _)
ParseRelFiles(relationships, entries) ==
    IF entries = <<>> THEN relationships
    ELSE LET e == Head(entries)
         IN  ParseRelFiles(
                 IF EndsWith(e.path, ".rels") /\ e.xml.wellformed
                 THEN AddRelationships(relationships, e.xml.rels)
                 ELSE relationships,
                 Tail(entries))

_parse_relationships(zip_file) == ParseRelFiles(<<>>, zip_file)

(***************************************************************************)
(* PPTExtractor._parse_slide_xml_for_ole_names.                            *)
(***************************************************************************)
\* lines 326-341: xml.etree elements have no getparent, so the walk from a
\* p:oleObj (never itself a graphicFrame) ends at once and records nothing
Method1(ole_names, shapes) == ole_names

\* lines 344-355 with the test of line 336, name != 'Object 1', in the place
\* of the test of line 349
RECURSIVE Method2_object_1_only(_, _)
Method2_object_1_only(ole_names, shapes) ==
    IF shapes = <<>> THEN ole_names
    ELSE LET f == Head(shapes)
         IN  Method2_object_1_only(
                 IF /\ f.tag = "graphicFrame" /\ f.cNvPr
                    /\ Truthy(f.name) /\ f.name.v # "Object 1"
                    /\ f.oleObj /\ Truthy(f.rid)
                 THEN DictSet(ole_names, f.rid.v, f.name.v)
                 ELSE ole_names,
                 Tail(shapes))

\* lines 344-355
RECURSIVE Method2(_, _)
Method2(ole_names, shapes) ==
    IF shapes = <<>> THEN ole_names
    ELSE LET f == Head(shapes)
         IN  Method2(
                 IF /\ f.tag = "graphicFrame" /\ f.cNvPr
                    /\ Truthy(f.name) /\ ~StartsWith(f.name.v, "Object ")
                    /\ f.oleObj /\ Truthy(f.rid)
                 THEN DictSet(ole_names, f.rid.v, f.name.v)
                 ELSE ole_names,
                 Tail(shapes))

\* lines 358-371: the first p:cNvPr whose name looks like a file name makes
\* cnv_pr.getparent() raise AttributeError, which ends the slide (line 373)
Method3Raises(shapes) ==
    \E i \in 1..Len(shapes) :
        /\ shapes[i].cNvPr /\ Truthy(shapes[i].name)
        /\ \/ Contains(shapes[i].name.v, ".")
           \/ \E ext \in {".xlsx", ".docx", ".pdf", ".pptx"} :
                  Contains(Lower(shapes[i].name.v), ext)

\* lines 310-379 without the try of line 313: the first slide that raises
\* ends the loop in the except clause of line 376
RECURSIVE ParseSlides_until_raise(_, _)
ParseSlides_until_raise(ole_names, entries) ==
    IF entries = <<>> THEN ole_names
    ELSE LET e == Head(entries)
             slide == StartsWith(e.path, "ppt/slides/slide") /\ EndsWith(e.path, ".xml")
         IN  IF ~slide THEN ParseSlides_until_raise(ole_names, Tail(entries))
             ELSE IF ~e.xml.wellformed THEN ole_names
             ELSE IF Method3Raises(e.xml.shapes)
             THEN Method2(Method1(ole_names, e.xml.shapes), e.xml.shapes)
             ELSE ParseSlides_until_raise(
                      Method2(Method1(ole_names, e.xml.shapes), e.xml.shapes),
                      Tail(entries))

\* lines 310-379, over the entries in namelist order
RECURSIVE ParseSlides(_, _)
ParseSlides(ole_names, entries) ==
    IF entries = <<>> THEN ole_names
    ELSE LET e == Head(entries)
         IN  ParseSlides(
                 IF /\ StartsWith(e.path, "ppt/slides/slide")
                    /\ EndsWith(e.path, ".xml") /\ e.xml.wellformed
                 THEN Method2(Method1(ole_names, e.xml.shapes), e.xml.shapes)
                 ELSE ole_names,
                 Tail(entries))

_parse_slide_xml_for_ole_names(zip_file) == ParseSlides(<<>>, zip_file)

\* lines 373-374: the slides whose try block raised, in namelist order; the
\* except clause calls logger.warning for each and records nothing in
\* self.error_handler.warnings
SlideWarnings(zip_file) ==
    LET raised(e) ==
            /\ StartsWith(e.path, "ppt/slides/slide") /\ EndsWith(e.path, ".xml")
            /\ (~e.xml.wellformed \/ Method3Raises(e.xml.shapes))
        kept == SelectSeq(zip_file, raised)
    IN  [i \in 1..Len(kept) |-> kept[i].path]

(***************************************************************************)
(* The containers and output directories the runs start from.              *)
(***************************************************************************)
pptx_path == "deck.pptx"

output_dir == "out"

\* the entries with bytes: embedded parts under the four embedded-object
\* locations
Ole1 == Entry("ppt/embeddings/oleObject1.bin", "OleDocA", NoXml)

Ole2 == Entry("ppt/embeddings/oleObject2.bin", "OleBudget", NoXml)

Ole3 == Entry("ppt/embeddings/oleObject3.bin", "OleDocA", NoXml)

\* the base name of Ole1, in another location
Ole1Word == Entry("word/embeddings/oleObject1.bin", "OleDocB", NoXml)

\* and in a third
Ole1Xl == Entry("xl/embeddings/oleObject1.bin", "OleDocA", NoXml)

\* a generic name (it starts with oleObject and ends with .bin) that holds
\* ".bin" twice
OleBinBin == Entry("ppt/embeddings/oleObject1.bin.bin", "OleDocB", NoXml)

Image1 == Entry("ppt/media/image1.png", "PngA", NoXml)

\* the base name of Image1, in another location and with other content
Image1Xl == Entry("xl/embeddings/image1.png", "DocxA", NoXml)

\* the name the second image1.png would be given
Image11 == Entry("ppt/media/image1_1.png", "PngB", NoXml)

Sheet == Entry("ppt/embeddings/Sheet", "XlsxA", NoXml)

\* a name whose only dot is the first character: os.path.splitext finds no
\* extension in it
DsStore == Entry("ppt/media/.DS_Store", "PngA", NoXml)

Range(seq) == {seq[i] : i \in 1..Len(seq)}

\* the sequences of at most n different elements of S
RECURSIVE SeqsUpTo(_, _)
SeqsUpTo(S, n) ==
    IF n = 0 THEN {<<>>}
    ELSE LET T == SeqsUpTo(S, n - 1)
         IN  T \cup {Append(x[1], x[2]) :
                        x \in {y \in T \X S : /\ Len(y[1]) = n - 1
                                              /\ y[2] \notin Range(y[1])}}

\* the entries every container of the model holds: the content-type
\* manifest and the directory entry of ppt/embeddings/
FixedEntries ==
    << Entry("[Content_Types].xml", "", NoXml),
       Entry("ppt/embeddings/", "", NoXml) >>

\* the sidecars and slides of a container
MetaEntries(m) ==
    CASE m = "none" -> <<>>
      \* what PowerPoint writes: the slide's sidecar names the part
      \* relative to ppt/slides/
      [] m = "slide_relative" ->
           << Slide("ppt/slides/slide1.xml", TRUE,
                    <<Frame(Attr("Budget Plan"), Attr("rId2"))>>),
              Sidecar("ppt/slides/_rels/slide1.xml.rels", TRUE,
                      << Rel(Attr("rId1"), Attr("../slideLayouts/slideLayout1.xml"), "layout"),
                         Rel(Attr("rId2"), Attr("../embeddings/oleObject1.bin"), OleType) >>) >>
      \* targets written as a suffix of the part's path
      [] m = "suffix" ->
           << Slide("ppt/slides/slide1.xml", TRUE,
                    << Frame(Attr("Report.xlsx"), Attr("rId2")),
                       Frame(Attr(" Plan "), Attr("rId3")),
                       Frame(Attr("Object 4"), Attr("rId4")) >>),
              Sidecar("ppt/slides/_rels/slide1.xml.rels", TRUE,
                      << Rel(Attr("rId2"), Attr("embeddings/oleObject1.bin"), OleType),
                         Rel(Attr("rId3"), Attr("oleObject2.bin"), OleType),
                         Rel(NoAttr, Attr("oleObject2.bin"), OleType) >>) >>
      \* a slide and a sidecar that are no XML, a slide in which method 3
      \* raises after method 2 found a name, a slide without any of the
      \* elements looked for, and a slide with a frame that has no p:cNvPr
      [] m = "broken" ->
           << Slide("ppt/slides/slide1.xml", FALSE, <<Frame(Attr("Lost"), Attr("rId4"))>>),
              Slide("ppt/slides/slide2.xml", TRUE,
                    <<Frame(Attr("Plan"), Attr("rId2")), Pic(Attr("photo.png"))>>),
              Slide("ppt/slides/slide4.xml", TRUE, <<>>),
              Slide("ppt/slides/slide3.xml", TRUE,
                    <<Frame(Attr("Notes"), Attr("rId3")), BareFrame(Attr("rId9"))>>),
              Sidecar("ppt/slides/_rels/slide1.xml.rels", FALSE,
                      <<Rel(Attr("rId2"), Attr("oleObject2.bin"), OleType)>>),
              Sidecar("ppt/slides/_rels/slide2.xml.rels", TRUE,
                      << Rel(Attr("rId2"), Attr("embeddings/oleObject1.bin"), OleType),
                         Rel(Attr("rId3"), Attr("oleObject2.bin"), OleType),
                         Rel(Attr("rId4"), Attr("oleObject3.bin"), OleType) >>) >>
      [] OTHER -> <<>>

\* the output directory before the run: path |-> [size, by]; by is 0 for a
\* file that was there before the run and the position of the part in
\* embedded_files for a file the run created
InitialDirs ==
    { <<>>,
      [p \in {"out/image1.png", "out/oleObject1.doc"} |-> [size |-> 7, by |-> 0]] }

\* a scenario: the sidecars and slides of the container, the output
\* directory before the run and the parts the container draws from
Scenarios ==
    { [meta |-> "none", fs |-> <<>>, pool |-> {Ole1, Ole1Word, Ole1Xl, DsStore}],
      [meta |-> "none", fs |-> <<>>, pool |-> {Ole1, Image1, Image1Xl, Image11}] }
    \cup {[meta |-> "none", fs |-> d, pool |-> {Ole1, Image1, Image1Xl, Image11}] :
             d \in InitialDirs \ {<<>>}}
    \cup {[meta |-> "slide_relative", fs |-> <<>>,
           pool |-> {Ole1, Ole2, OleBinBin, Sheet}]}
    \cup {[meta |-> "suffix", fs |-> <<>>,
           pool |-> {Ole1, Ole2, Ole1Word, Sheet, Image1Xl}]}
    \cup {[meta |-> "broken", fs |-> <<>>, pool |-> {Ole1, Ole2, Ole3}]}

(***************************************************************************)
(* ErrorHandler: the code an exception is recorded under.  An exception    *)
(* is [type, code]; code is set for a PPTExtractorError only.              *)
(***************************************************************************)
Exception(type) == [type |-> type, code |-> ""]

\* _classify_error, for messages that name no directory, no full disk and
\* no denied permission
_classify_error(error_type) ==
    CASE error_type = "FileNotFoundError" -> "E001"
      [] error_type = "PermissionError" -> "E002"
      [] error_type = "IsADirectoryError" -> "E004"
      [] error_type = "MemoryError" -> "E301"
      [] error_type = "OSError" -> "E999"
      [] error_type = "BadZipFile" -> "E003"
      [] OTHER -> "E999"

\* handle_error: the code of the error appended to self.errors
handle_error(error) ==
    IF error.type = "PPTExtractorError" THEN error.code
    ELSE _classify_error(error.type)

\* Lines 185 and 207-210 build their PPTExtractorError with
\* ErrorCode.FILE_SAVE_FAILED.  The enum (error_handler.py 25-50) has
\* SAVE_FAILED and no FILE_SAVE_FAILED, so evaluating the argument raises
\* AttributeError, and that is the exception line 212 catches.
SaveError == Exception("AttributeError")

(***************************************************************************)
(* PPTExtractor._extract_from_pptx: naming.                                *)
(***************************************************************************)
embedded_dirs == <<"ppt/embeddings/", "ppt/media/", "word/embeddings/", "xl/embeddings/">>

\* lines 117-120 without the test of line 118 for a directory entry
IsEmbedded_any_entry(file_path) ==
    \E d \in 1..Len(embedded_dirs) : StartsWith(file_path, embedded_dirs[d])

\* lines 117-120
IsEmbedded(file_path) ==
    \E d \in 1..Len(embedded_dirs) :
        StartsWith(file_path, embedded_dirs[d]) /\ ~EndsWith(file_path, "/")

\* line 146
IsGeneric(base_name) == StartsWith(base_name, "oleObject") /\ EndsWith(base_name, ".bin")

\* line 149
TargetMatches(target, file_path) ==
    Contains(file_path, target) \/ EndsWith(file_path, target)

\* lines 148-152: the name of the first relationship, in dict order, whose
\* target matches the part and whose id has a name; None otherwise
HintFor(file_path, rels, names) ==
    LET M == {k \in 1..Len(rels) :
                 /\ TargetMatches(rels[k].value.target, file_path)
                 /\ DictHas(names, rels[k].key)}
    IN  IF M = {} THEN NoAttr ELSE Attr(DictGet(names, rels[Min(M)].key))

\* lines 155-158
HintName(original_name, file_ext) ==
    LET base_name == Strip(original_name)
    IN  IF \E ext \in {".xlsx", ".docx", ".pdf", ".pptx", ".txt", ".xls"} :
               EndsWith(Lower(base_name), ext)
        THEN base_name
        ELSE base_name \o file_ext

\* line 161
GenericName(base_name, file_ext) == Replace(base_name, ".bin", file_ext)

\* lines 164-166 with the detected extension put in the place of the one
\* the name has
SpecificName_replacing(base_name, file_ext) ==
    SplitExt(base_name)[1] \o file_ext

\* lines 164-166
SpecificName(base_name, file_ext) ==
    IF ~Contains(base_name, ".") THEN base_name \o file_ext ELSE base_name

\* lines 142-166: the base name of the output file and original_name
ResolveName(file_path, file_ext, rels, names) ==
    LET base_name == Basename(file_path)
        hint == HintFor(file_path, rels, names)
    IN  IF IsGeneric(base_name)
        THEN IF Truthy(hint) /\ Strip(hint.v) # ""
             THEN [base_name |-> HintName(hint.v, file_ext), original_name |-> hint]
             ELSE [base_name |-> GenericName(base_name, file_ext), original_name |-> hint]
        ELSE [base_name |-> SpecificName(base_name, file_ext),
              original_name |-> Attr(base_name)]

\* line 175
Suffixed(original_output_path, counter) ==
    LET ne == SplitExt(original_output_path)
    IN  ne[1] \o "_" \o ToString(counter) \o ne[2]

\* lines 171-176 with an if in the place of the while: one suffix is tried
CollisionLoop_once(existing, original_output_path, output_path, counter) ==
    IF output_path \in existing
    THEN Suffixed(original_output_path, counter)
    ELSE output_path

\* lines 171-176: the loop while os.path.exists(output_path)
RECURSIVE CollisionLoop(_, _, _, _)
CollisionLoop(existing, original_output_path, output_path, counter) ==
    IF output_path \in existing
    THEN CollisionLoop(existing, original_output_path,
                       Suffixed(original_output_path, counter), counter + 1)
    ELSE output_path

\* lines 168-176 with os.path.exists(base_name) as the first test: the name
\* is looked up without the output directory in front of it
FreePath_name_tested(existing, base_name) ==
    LET output_path == PathJoin(output_dir, base_name)
    IN  IF base_name \in existing
        THEN CollisionLoop(existing, output_path, Suffixed(output_path, 1), 2)
        ELSE output_path

\* line 168 alone: the path is taken whether or not a file is there
FreePath_unchecked(existing, base_name) ==
    PathJoin(output_dir, base_name)

\* lines 168-176
FreePath(existing, base_name) ==
    LET output_path == PathJoin(output_dir, base_name)
    IN  CollisionLoop(existing, output_path, output_path, 1)

\* line 190: the text that stands for no original name
UnknownName == "<unknown>"

(***************************************************************************)
(* The state of one run of PPTExtractor._extract_from_pptx.                *)
(***************************************************************************)
VARIABLES
    zip,              \* the container: [openable, entries], entries in namelist order
    fs,               \* the output directory: path |-> [size, by]
    pc,               \* "start", "loop" (line 132) or "done" (returned)
    embedded_files,   \* line 116
    relationships,    \* line 123
    ole_names,        \* line 126
    done,             \* how many of embedded_files the loop has processed
    extracted_files,  \* line 100
    failed_files,     \* line 101
    stats,            \* self.stats
    errors,           \* self.error_handler.errors, the code of each
    result,           \* the summary of the returned dict, <<>> before the return
    faults,           \* the environment faults so far
    hist,             \* per processed part: the base name resolved for it and
                      \* the file it created ("" for none)
    warnings,         \* self.error_handler.warnings
    logged,           \* the entries self.error_handler.logger.warning was
                      \* called for
    call_data,        \* detect_file_type called on its own: file_data,
    call_path,        \* file_path,
    signature_type,   \* the family _detect_by_signature found ("" for None)
    detected,         \* and what it returned, <<>> before the return
    ole_data,         \* the OLE root-name read on its own: embed_data,
    ole_read,         \* whether the read is over,
    ole_name_read,    \* the code units of the name it printed (<<>> for none)
    ole_sliced,       \* and the offsets of embed_data it sliced
    calls,            \* the calls of extract_embedded_objects on the instance:
                      \* the arguments and the environment of each, and
                      \* whether it entered _extract_from_pptx
    returned,         \* and the dict each call returned
    runs,             \* runs of _extract_from_pptx side by side on one output
                      \* directory: the position of each in lines 168-181
    smart             \* an EnhancedPPTExtractor: type_counters of the smart
                      \* naming and the mapping template it wrote

vars ==
    <<zip, fs, pc, embedded_files, relationships, ole_names, done,
      extracted_files, failed_files, stats, errors, result, faults, hist,
      warnings, logged, call_data, call_path, signature_type, detected,
      ole_data, ole_read, ole_name_read, ole_sliced, calls, returned, runs, smart>>

\* the variables of a call of detect_file_type on its own
detect_vars == <<call_data, call_path, signature_type, detected>>

\* the variables of an OLE root-name read on its own
ole_vars == <<ole_data, ole_read, ole_name_read, ole_sliced>>

\* the variables of the calls of extract_embedded_objects
call_vars == <<calls, returned>>

\* the variables of runs side by side
race_vars == <<runs>>

\* the variables of an EnhancedPPTExtractor
smart_vars == <<smart>>

Init ==
    \E sc \in Scenarios, openable \in BOOLEAN :
      \E parts \in SeqsUpTo(sc.pool, MaxParts) :
        /\ zip = [openable |-> openable,
                  entries |-> IF openable
                              THEN FixedEntries \o MetaEntries(sc.meta) \o parts
                              ELSE <<>>]
        /\ fs = sc.fs
        /\ pc = "start"
        /\ embedded_files = <<>>
        /\ relationships = <<>>
        /\ ole_names = <<>>
        /\ done = 0
        /\ extracted_files = <<>>
        /\ failed_files = <<>>
        /\ stats = [total_files_found |-> 0, total_files_extracted |-> 0,
                    total_files_failed |-> 0, total_size_extracted |-> 0]
        /\ errors = <<>>
        /\ result = <<>>
        /\ faults = 0
        /\ hist = <<>>
        /\ warnings = <<>>
        /\ logged = <<>>
        /\ call_data = Empty
        /\ call_path = ""
        /\ detected = <<>>
        /\ signature_type = ""
        /\ ole_data = Empty
        /\ ole_read = FALSE
        /\ ole_name_read = <<>>
        /\ ole_sliced = {}
        /\ calls = <<>>
        /\ returned = <<>>
        /\ runs = <<>>
        /\ smart = <<>>

\* lines 233-245
Summary(success, failed) ==
    [total |-> Len(success) + Len(failed), extracted |-> Len(success),
     failed |-> Len(failed)]

\* zip_file.namelist()
NameList == [k \in 1..Len(zip.entries) |-> zip.entries[k].path]

\* zip_file.read(file_path)
ReadEntry(file_path) ==
    Blob(zip.entries[Max({k \in 1..Len(zip.entries) : zip.entries[k].path = file_path})].blob)

\* line 132 for a loop that a failure of a part would end
LoopDone_at_failure == done = Len(embedded_files) \/ Len(failed_files) > 0

\* line 132: the for loop has gone through embedded_files; a part that raised
\* was caught at line 212 and the loop went on
LoopDone == done = Len(embedded_files)

\* lines 227-245 without the append of lines 228-231
OpenFails_unreported ==
    /\ pc = "start" /\ ~zip.openable
    /\ stats' = [stats EXCEPT !.total_files_found = Len(extracted_files) + Len(failed_files)]
    /\ result' = Summary(extracted_files, failed_files)
    /\ pc' = "done"
    /\ UNCHANGED <<zip, fs, embedded_files, relationships, ole_names, done,
                   extracted_files, failed_files, errors, faults, hist>>
    /\ UNCHANGED <<warnings, logged, detect_vars, ole_vars, call_vars, race_vars, smart_vars>>

\* lines 103-104 raise, lines 227-245: the container does not open
OpenFails ==
    /\ pc = "start" /\ ~zip.openable
    /\ failed_files' = Append(failed_files, [file |-> pptx_path])
    /\ stats' = [stats EXCEPT !.total_files_found = Len(extracted_files) + Len(failed_files')]
    /\ result' = Summary(extracted_files, failed_files')
    /\ pc' = "done"
    /\ UNCHANGED <<zip, fs, embedded_files, relationships, ole_names, done,
                   extracted_files, errors, faults, hist>>
    /\ UNCHANGED <<warnings, logged, detect_vars, ole_vars, call_vars, race_vars, smart_vars>>

\* lines 104-126: the container opens
OpenAndScan ==
    /\ pc = "start" /\ zip.openable
    /\ embedded_files' = SelectSeq(NameList, IsEmbedded)
    /\ relationships' = _parse_relationships(zip.entries)
    /\ ole_names' = _parse_slide_xml_for_ole_names(zip.entries)
    /\ pc' = "loop"
    /\ UNCHANGED <<zip, fs, done, extracted_files, failed_files, stats, errors,
                   result, faults, hist>>
    /\ logged' = logged \o SlideWarnings(zip.entries)
    /\ UNCHANGED <<warnings, detect_vars, ole_vars, call_vars, race_vars, smart_vars>>

\* lines 212-223: the part that raised is recorded as failed
RecordFailure(file_path, error, base_name, created) ==
    /\ stats' = [stats EXCEPT !.total_files_failed = @ + 1]
    /\ failed_files' = Append(failed_files, [file |-> file_path, error_type |-> error.type])
    /\ errors' = Append(errors, handle_error(error))
    /\ hist' = Append(hist, [path |-> file_path, base_name |-> base_name,
                             created |-> created, ok |-> FALSE])
    /\ done' = done + 1
    /\ faults' = faults + 1
    /\ UNCHANGED <<zip, pc, embedded_files, relationships, ole_names,
                   extracted_files, result>>
    /\ UNCHANGED <<warnings, logged, detect_vars, ole_vars, call_vars, race_vars, smart_vars>>

\* line 135 raises: the entry cannot be read
ReadFails ==
    /\ pc = "loop" /\ ~LoopDone /\ faults < MaxFaults
    /\ RecordFailure(embedded_files[done + 1], Exception("BadZipFile"), "", "")
    /\ UNCHANGED fs

\* lines 135-176, then the save raises: open() fails and leaves no file
\* ("open"), write() fails and leaves a file cut short ("write"), or the
\* check of line 184 finds another size than was written ("verify")
SaveFails ==
    /\ pc = "loop" /\ ~LoopDone /\ faults < MaxFaults
    /\ \E kind \in {"open", "write", "verify"} :
         LET file_path == embedded_files[done + 1]
             file_data == ReadEntry(file_path)
             type == detect_file_type(file_data, file_path)
             name == ResolveName(file_path, type.ext, relationships, ole_names)
             output_path == FreePath(DOMAIN fs, name.base_name)
         IN  /\ fs' = CASE kind = "open" -> fs
                        [] kind = "write" -> (output_path :> [size |-> 0, by |-> done + 1]) @@ fs
                        [] OTHER -> (output_path :> [size |-> file_data.len + 1, by |-> done + 1]) @@ fs
             /\ RecordFailure(file_path, SaveError, name.base_name,
                              IF kind = "open" THEN "" ELSE output_path)

\* lines 135-204: the part is read, named and written
ExtractPart ==
    /\ pc = "loop" /\ ~LoopDone
    /\ LET file_path == embedded_files[done + 1]
           file_data == ReadEntry(file_path)
           type == detect_file_type(file_data, file_path)
           name == ResolveName(file_path, type.ext, relationships, ole_names)
           output_path == FreePath(DOMAIN fs, name.base_name)
           file_info ==
               [original_path |-> file_path,
                output_path |-> output_path,
                original_name |-> IF Truthy(name.original_name)
                                  THEN name.original_name.v ELSE UnknownName,
                file_type |-> type.desc,
                file_category |-> get_file_category(From(type.ext, 1)),
                mime_type |-> type.mime,
                size |-> file_data.len]
       IN  /\ fs' = (output_path :> [size |-> file_data.len, by |-> done + 1]) @@ fs
           /\ extracted_files' = Append(extracted_files, file_info)
           /\ stats' = [stats EXCEPT !.total_files_extracted = @ + 1,
                                     !.total_size_extracted = @ + file_data.len]
           /\ hist' = Append(hist, [path |-> file_path, base_name |-> name.base_name,
                                    created |-> output_path, ok |-> TRUE])
    /\ done' = done + 1
    /\ UNCHANGED <<zip, pc, embedded_files, relationships, ole_names, failed_files,
                   errors, result, faults>>
    /\ UNCHANGED <<warnings, logged, detect_vars, ole_vars, call_vars, race_vars, smart_vars>>

\* lines 233-245, after the loop (or line 225 when there is no part)
Finish ==
    /\ pc = "loop" /\ LoopDone
    /\ stats' = [stats EXCEPT !.total_files_found = Len(extracted_files) + Len(failed_files)]
    /\ result' = Summary(extracted_files, failed_files)
    /\ pc' = "done"
    /\ UNCHANGED <<zip, fs, embedded_files, relationships, ole_names, done,
                   extracted_files, failed_files, errors, faults, hist>>
    /\ UNCHANGED <<warnings, logged, detect_vars, ole_vars, call_vars, race_vars, smart_vars>>

Next == OpenFails \/ OpenAndScan \/ ReadFails \/ SaveFails \/ ExtractPart \/ Finish

Spec == Init /\ [][Next]_vars

(***************************************************************************)
(* The runs of _parse_relationships over containers with two slide         *)
(* sidecars and no embedded part.                                          *)
(***************************************************************************)
\* the Relationship elements the sidecars draw from: two with one Id and
\* different targets, one without Id, one without Target, one with an
\* empty Id
RelPool ==
    { Rel(Attr("rId1"), Attr("../embeddings/oleObject1.bin"), OleType),
      Rel(Attr("rId1"), Attr("../embeddings/oleObject2.bin"), OleType),
      Rel(Attr("rId2"), Attr("../media/image1.png"), "image"),
      Rel(NoAttr, Attr("../embeddings/oleObject3.bin"), OleType),
      Rel(Attr("rId3"), NoAttr, OleType),
      Rel(Attr(""), Attr("../media/image2.png"), "image") }

SidecarPaths ==
    <<"ppt/slides/_rels/slide1.xml.rels", "ppt/slides/_rels/slide2.xml.rels">>

InitRels ==
    \E elems \in SeqsUpTo(RelPool, MaxRelElems) :
      \E cut \in 0..Len(elems), w1, w2 \in BOOLEAN :
        /\ zip = [openable |-> TRUE,
                  entries |-> FixedEntries \o
                      << Sidecar(SidecarPaths[1], w1, SubSeq(elems, 1, cut)),
                         Sidecar(SidecarPaths[2], w2,
                                 SubSeq(elems, cut + 1, Len(elems))) >>]
        /\ fs = <<>>
        /\ pc = "start"
        /\ embedded_files = <<>>
        /\ relationships = <<>>
        /\ ole_names = <<>>
        /\ done = 0
        /\ extracted_files = <<>>
        /\ failed_files = <<>>
        /\ stats = [total_files_found |-> 0, total_files_extracted |-> 0,
                    total_files_failed |-> 0, total_size_extracted |-> 0]
        /\ errors = <<>>
        /\ result = <<>>
        /\ faults = 0
        /\ hist = <<>>
        /\ warnings = <<>>
        /\ logged = <<>>
        /\ call_data = Empty
        /\ call_path = ""
        /\ detected = <<>>
        /\ signature_type = ""
        /\ ole_data = Empty
        /\ ole_read = FALSE
        /\ ole_name_read = <<>>
        /\ ole_sliced = {}
        /\ calls = <<>>
        /\ returned = <<>>
        /\ runs = <<>>
        /\ smart = <<>>

NextRels == OpenAndScan \/ Finish

SpecRels == InitRels /\ [][NextRels]_vars

(***************************************************************************)
(* The calls of FileTypeDetector.detect_file_type on its own, over byte    *)
(* buffers and declared paths.                                             *)
(***************************************************************************)
\* the longest sample _is_text_file is given byte by byte
MaxTextLen == 10

Plain(len, bytes) == [len |-> len, bytes |-> bytes, nested |-> NoNested]

\* every signature of the table alone, followed by four zero bytes, and cut
\* short of its last byte
SignatureBuffers ==
    UNION {{Plain(Len(sig), Bytes(0, sig)),
            Plain(Len(sig) + 4, Bytes(0, sig)),
            Plain(Len(sig) - 1, Bytes(0, SubSeq(sig, 1, Len(sig) - 1)))} :
              sig \in {file_signatures[i].sig : i \in 1..Len(file_signatures)}}

\* "ftyp" at offset 4 behind a box size the table does not hold, in 12, in 8
\* and in 7 bytes
FtypBuffers ==
    { Plain(12, Bytes(0, <<0, 0, 0, 28>>) @@ Bytes(4, <<102, 116, 121, 112>>)),
      Plain(8, Bytes(0, <<0, 0, 0, 28>>) @@ Bytes(4, <<102, 116, 121, 112>>)),
      Plain(7, Bytes(0, <<0, 0, 0, 28>>) @@ Bytes(4, <<102, 116, 121>>)) }

\* RIFF with WAVE at offset 8, with "AVI " at offset 8, and with WAVE across
\* offset 100
RiffBuffers ==
    { Plain(16, Bytes(0, <<82, 73, 70, 70>>) @@ Bytes(8, <<87, 65, 86, 69>>)),
      Plain(16, Bytes(0, <<82, 73, 70, 70>>) @@ Bytes(8, <<65, 86, 73, 32>>)),
      Plain(110, Bytes(0, <<82, 73, 70, 70>>) @@ Bytes(98, <<87, 65, 86, 69>>)) }

\* the names a nested archive lists, in the order it lists them
NestedNames ==
    <<"[Content_Types].xml", "ppt/presentation.xml", "xl/workbook.xml",
      "word/document.xml">>

\* bytes with the ZIP signature: an archive with every subset of NestedNames
\* and a [Content_Types].xml that holds no marker, one, two, or that raises
\* when read ("unreadable"), and bytes that do not open
ZipBuffers ==
    {[len |-> 200, bytes |-> Bytes(0, <<80, 75, 3, 4>>),
      nested |-> [ok |-> TRUE,
                  names |-> SelectSeq(NestedNames, LAMBDA n : n \in S),
                  content_types |-> IF "[Content_Types].xml" \in S THEN c ELSE ""]] :
        S \in SUBSET Range(NestedNames),
        c \in {"", "wordprocessingml", "spreadsheetml", "presentationml",
               "spreadsheetml wordprocessingml", "presentationml spreadsheetml",
               "unreadable"}}
    \cup {Plain(200, Bytes(0, <<80, 75, 3, 4>>))}

\* OLE compound files: with a class marker, without one, and with
\* "WordPad" past offset 4096
OleBuffers ==
    { OleDocA, OleBudget, Plain(600, Bytes(0, OleSignature)),
      Plain(5000, Bytes(0, OleSignature) @@ Bytes(4092, <<87, 111, 114, 100, 80, 97, 100>>)),
      Plain(5000, Bytes(0, OleSignature) @@ Bytes(4000, <<87, 111, 114, 100, 80, 97, 100>>)) }

\* n bytes without signature: k letters "a", then d bytes 0x80, which are
\* no UTF-8, then bytes 0x01
TextBuffer(n, k, d) ==
    Plain(n, [i \in 0..(n - 1) |-> IF i < k THEN 97 ELSE IF i < k + d THEN 128 ELSE 1])

TextBuffers ==
    {TextBuffer(n, k, d) : n \in 0..MaxTextLen, k \in 0..MaxTextLen, d \in 0..1}

\* 2048 bytes: letters "a" in the first k and zero bytes behind
LongBuffers == {Plain(2048, [i \in 0..(k - 1) |-> 97]) : k \in {716, 717, 1024}}

Buffers ==
    SignatureBuffers \cup FtypBuffers \cup RiffBuffers \cup ZipBuffers
    \cup OleBuffers \cup TextBuffers \cup LongBuffers

\* the declared paths
Paths ==
    {"", "ppt/embeddings/oleObject1.bin", "ppt/embeddings/report.docx",
     "ppt/media/IMAGE1.PNG", "notes.htm", "ppt/embeddings/Sheet"}

InitDetect ==
    /\ call_data \in Buffers
    /\ call_path \in Paths
    /\ detected = <<>>
    /\ signature_type = ""
    /\ ole_data = Empty
    /\ ole_read = FALSE
    /\ ole_name_read = <<>>
    /\ ole_sliced = {}
    /\ calls = <<>>
    /\ returned = <<>>
    /\ runs = <<>>
    /\ smart = <<>>
    /\ zip = [openable |-> FALSE, entries |-> <<>>]
    /\ fs = <<>>
    /\ pc = "start"
    /\ embedded_files = <<>>
    /\ relationships = <<>>
    /\ ole_names = <<>>
    /\ done = 0
    /\ extracted_files = <<>>
    /\ failed_files = <<>>
    /\ stats = [total_files_found |-> 0, total_files_extracted |-> 0,
                total_files_failed |-> 0, total_size_extracted |-> 0]
    /\ errors = <<>>
    /\ result = <<>>
    /\ faults = 0
    /\ hist = <<>>
    /\ warnings = <<>>
    /\ logged = <<>>

\* the call detect_file_type(file_data, file_path), lines 113-179
Detect ==
    /\ detected = <<>>
    /\ signature_type' = _detect_by_signature(call_data)
    /\ detected' = detect_file_type(call_data, call_path)
    /\ UNCHANGED <<zip, fs, pc, embedded_files, relationships, ole_names, done,
                   extracted_files, failed_files, stats, errors, result, faults,
                   hist, warnings, logged, call_data, call_path, ole_vars, call_vars, race_vars, smart_vars>>

NextDetect == Detect

SpecDetect == InitDetect /\ [][NextDetect]_vars

(***************************************************************************)
(* The calls of _parse_slide_xml_for_ole_names over two slides that draw   *)
(* their shapes from a pool.                                               *)
(***************************************************************************)
\* the shapes both slides hold together, at most
MaxShapes == 3

\* frames with a name of their own for one id and for another, frames with
\* the names PowerPoint gives, a frame with a file name, a picture with a
\* file name, and a frame without p:cNvPr
ShapePool ==
    { Frame(Attr("First"), Attr("rId2")),
      Frame(Attr("Second"), Attr("rId2")),
      Frame(Attr("Third"), Attr("rId3")),
      Frame(Attr("Object 1"), Attr("rId3")),
      Frame(Attr("Object 2"), Attr("rId2")),
      Frame(Attr("Object 10"), Attr("rId4")),
      Frame(Attr("Data.xlsx"), Attr("rId3")),
      Pic(Attr("Budget.xlsx")),
      BareFrame(Attr("rId2")) }

SlidePaths == <<"ppt/slides/slide1.xml", "ppt/slides/slide2.xml">>

InitSlides ==
    \E shapes \in SeqsUpTo(ShapePool, MaxShapes) :
      \E cut \in 0..Len(shapes), w1 \in BOOLEAN :
        /\ zip = [openable |-> TRUE,
                  entries |-> FixedEntries \o
                      << Slide(SlidePaths[1], w1, SubSeq(shapes, 1, cut)),
                         Slide(SlidePaths[2], TRUE,
                               SubSeq(shapes, cut + 1, Len(shapes))) >>]
        /\ fs = <<>>
        /\ pc = "start"
        /\ embedded_files = <<>>
        /\ relationships = <<>>
        /\ ole_names = <<>>
        /\ done = 0
        /\ extracted_files = <<>>
        /\ failed_files = <<>>
        /\ stats = [total_files_found |-> 0, total_files_extracted |-> 0,
                    total_files_failed |-> 0, total_size_extracted |-> 0]
        /\ errors = <<>>
        /\ result = <<>>
        /\ faults = 0
        /\ hist = <<>>
        /\ warnings = <<>>
        /\ logged = <<>>
        /\ call_data = Empty
        /\ call_path = ""
        /\ detected = <<>>
        /\ signature_type = ""
        /\ ole_data = Empty
        /\ ole_read = FALSE
        /\ ole_name_read = <<>>
        /\ ole_sliced = {}
        /\ calls = <<>>
        /\ returned = <<>>
        /\ runs = <<>>
        /\ smart = <<>>

NextSlides == OpenAndScan \/ Finish

SpecSlides == InitSlides /\ [][NextSlides]_vars

(***************************************************************************)
(* The OLE root-name read on its own, over compound files of several       *)
(* lengths, directory sectors, name lengths and names.                     *)
(***************************************************************************)
LE16Bytes(v) == <<v % 256, v \div 256>>

LE32Bytes(v) ==
    <<v % 256, (v \div 256) % 256, (v \div 65536) % 256, v \div 16777216>>

\* the bytes of the code units, little-endian
UnitBytes(units) ==
    [i \in 1..(2 * Len(units)) |->
        IF i % 2 = 1 THEN units[(i + 1) \div 2] % 256 ELSE units[i \div 2] \div 256]

\* the lengths of the buffers: around the 76 bytes the read asks for, and
\* around the end of the directory entry of sector 0 (640) and of sector 1
\* (1152)
OleLengths == {8, 76, 77, 639, 640, 1100, 1151, 1152, 1536}

\* the values of header bytes 48..51; the last two are beyond every buffer
OleSectors == {0, 1, 2, 16777216, 2147483647}

\* the values of the name-length field of the directory entry
OleNameLengths == {0, 1, 2, 3, 4, 6, 13, 14, 64, 65, 66, 65535}

\* the code units the entry starts with: "Budget", the reserved name, a
\* name with a high surrogate that has no partner, and a surrogate pair
\* before a letter
OleNames ==
    { <<66, 117, 100, 103, 101, 116>>, OleReserved,
      <<66, 55357, 100, 103, 101, 116>>, <<55357, 56832, 66>> }

\* a buffer of len bytes: the signature, n in bytes 48..51 and, in the
\* sector after sector n, an entry that starts with units and holds
\* name_len in its bytes 64..65, as far as len reaches
OleFile(len, n, name_len, units) ==
    LET d == (n + 1) * sector_size
        raw == Bytes(0, OleSignature) @@ Bytes(48, LE32Bytes(n))
               @@ (IF n <= 2
                   THEN Bytes(d, UnitBytes(units)) @@ Bytes(d + 64, LE16Bytes(name_len))
                   ELSE <<>>)
    IN  [len |-> len,
         bytes |-> [i \in {j \in DOMAIN raw : j < len} |-> raw[i]],
         nested |-> NoNested]

OleFiles ==
    {OleFile(len, n, name_len, units) :
        len \in OleLengths, n \in OleSectors, name_len \in OleNameLengths,
        units \in OleNames}
    \cup {PngA, Empty}

InitOle ==
    /\ ole_data \in OleFiles
    /\ ole_read = FALSE
    /\ ole_name_read = <<>>
    /\ ole_sliced = {}
    /\ calls = <<>>
    /\ returned = <<>>
    /\ runs = <<>>
    /\ smart = <<>>
    /\ zip = [openable |-> FALSE, entries |-> <<>>]
    /\ fs = <<>>
    /\ pc = "start"
    /\ embedded_files = <<>>
    /\ relationships = <<>>
    /\ ole_names = <<>>
    /\ done = 0
    /\ extracted_files = <<>>
    /\ failed_files = <<>>
    /\ stats = [total_files_found |-> 0, total_files_extracted |-> 0,
                total_files_failed |-> 0, total_size_extracted |-> 0]
    /\ errors = <<>>
    /\ result = <<>>
    /\ faults = 0
    /\ hist = <<>>
    /\ warnings = <<>>
    /\ logged = <<>>
    /\ call_data = Empty
    /\ call_path = ""
    /\ detected = <<>>
    /\ signature_type = ""

\* lines 105-131 on embed_data
ReadRootName ==
    /\ ~ole_read
    /\ ole_read' = TRUE
    /\ ole_name_read' = ole_root_name(ole_data)
    /\ ole_sliced' = ole_offsets(ole_data)
    /\ UNCHANGED <<zip, fs, pc, embedded_files, relationships, ole_names, done,
                   extracted_files, failed_files, stats, errors, result, faults,
                   hist, warnings, logged, detect_vars, ole_data, call_vars, race_vars, smart_vars>>

NextOle == ReadRootName

SpecOle == InitOle /\ [][NextOle]_vars

(***************************************************************************)
(* Notions the claims are stated with.                                     *)
(***************************************************************************)
\* the paths of the embedded parts of the container: the entries under one
\* of the four locations that are not directory entries
EmbeddedParts ==
    {k \in 1..Len(zip.entries) :
        /\ \E d \in {"ppt/embeddings/", "ppt/media/", "word/embeddings/", "xl/embeddings/"} :
               StartsWith(zip.entries[k].path, d)
        /\ ~EndsWith(zip.entries[k].path, "/")}

\* the files that were in the output directory before the run
PreExisting == {p \in DOMAIN fs : fs[p].by = 0}

\* the k-th name of the sequence base, base_1, base_2, ... in the output
\* directory (k = 0 for base itself), the suffix before the extension
NthName(base_name, k) ==
    IF k = 0 THEN PathJoin(output_dir, base_name)
    ELSE Suffixed(PathJoin(output_dir, base_name), k)

\* the parts processed so far that resolved to the base name of part k
Group(k) == {j \in 1..Len(hist) : hist[j].base_name = hist[k].base_name}

\* the place of part k among them, in scan order
Rank(k) == Cardinality({j \in Group(k) : j <= k})

\* the files in the output directory when part k was reached
ExistingAt(k) == PreExisting \cup ({hist[j].created : j \in 1..(k - 1)} \ {""})

\* the names base, base_1, base_2, ... of part k's base name, as far as the
\* run can have reached
NameSeq(k) ==
    [n \in 0..(Len(hist) + Cardinality(DOMAIN fs)) |-> NthName(hist[k].base_name, n)]

\* the number n with path = names[n], -1 when there is none
IndexIn(names, path) ==
    LET N == {n \in DOMAIN names : names[n] = path}
    IN  IF N = {} THEN -1 ELSE Min(N)

\* the number n with created = NthName(base, n), -1 when there is none
SuffixOf(k) == IndexIn(NameSeq(k), hist[k].created)

\* the success record of part k of embedded_files (hist[k].ok)
RecordOf(k) ==
    extracted_files[Cardinality({j \in 1..k : hist[j].ok})]

\* the names of the sequence of part k's base name
GroupNames(k) == {NameSeq(k)[n] : n \in DOMAIN NameSeq(k)}

\* part k's group all succeeded, and no name of its sequence was in the
\* directory before the run
C1_Case(k) ==
    /\ \A j \in Group(k) : hist[j].ok
    /\ PreExisting \cap GroupNames(k) = {}

\* C1 as stated, for the runs in which no part failed and the output
\* directory was empty before: the first part of a base name keeps the base
\* name and the k-th gets the suffix _(k-1).
C1_Original ==
    (pc = "done" /\ failed_files = <<>> /\ PreExisting = {}) =>
        \A k \in 1..Len(hist) :
            hist[k].created = NthName(hist[k].base_name, Rank(k) - 1)

\* C1, amended: the success records have pairwise distinct output paths;
\* each part is written to the first name of base, base_1, base_2, ... that
\* is not in the output directory when the part is reached, so within the
\* parts of one base name the suffixes strictly increase in scan order; and
\* the k-th gets exactly _(k-1) when in addition no part with another base
\* name created a file of that sequence.
C1_Amended ==
    /\ \A a, b \in 1..Len(extracted_files) :
           a # b => extracted_files[a].output_path # extracted_files[b].output_path
    /\ \A k \in 1..Len(hist) :
           hist[k].ok =>
               LET names == NameSeq(k)
                   suffix == IndexIn(names, hist[k].created)
                   existing == ExistingAt(k)
                   all == {names[n] : n \in DOMAIN names}
               IN  /\ RecordOf(k).output_path = hist[k].created
                   /\ suffix >= 0
                   /\ \A n \in 0..(suffix - 1) : names[n] \in existing
                   /\ hist[k].created \notin existing
                   /\ \A j \in Group(k) :
                          (j < k /\ hist[j].ok) =>
                              IndexIn(names, hist[j].created) < suffix
                   /\ (/\ \A j \in Group(k) : hist[j].ok
                       /\ PreExisting \cap all = {}
                       /\ \A j \in 1..(k - 1) :
                              j \notin Group(k) => hist[j].created \notin all)
                      => suffix = Rank(k) - 1

\* three parts of one base name, all written, the third as base_2; and a
\* part of one base name that finds its own name taken by another's suffix
C1_Witness ==
    /\ pc = "done"
    /\ \E k \in 1..Len(hist) :
           C1_Case(k) /\ Rank(k) = 3 /\ SuffixOf(k) = 2

\* the second part of a base name written under _2, because a part with
\* another base name holds the name with _1
C1_WitnessShift ==
    /\ pc = "done"
    /\ \E k \in 1..Len(hist) :
           C1_Case(k) /\ Rank(k) = 2 /\ SuffixOf(k) = 2

\* C2: the file at the output path of every success record has the size of
\* the part read from the container, and the record's size is that length.
C2_RoundTrip ==
    \A a \in 1..Len(extracted_files) :
        LET r == extracted_files[a]
        IN  /\ r.output_path \in DOMAIN fs
            /\ fs[r.output_path].size = ReadEntry(r.original_path).len
            /\ r.size = ReadEntry(r.original_path).len

\* two parts of different sizes written under colliding names, in a run in
\* which a save failed its check and left a file of another size
C2_Witness ==
    /\ pc = "done"
    /\ \E a, b \in 1..Len(extracted_files) :
           /\ a # b
           /\ extracted_files[a].size # extracted_files[b].size
    /\ \E k \in 1..Len(hist) : hist[k].ok /\ Rank(k) >= 2
    /\ \E k \in 1..Len(hist) :
           /\ ~hist[k].ok /\ hist[k].created # ""
           /\ fs[hist[k].created].size # ReadEntry(hist[k].path).len

\* the paths of the parts with a success record, and with a failure record
SuccessPaths == {extracted_files[a].original_path : a \in 1..Len(extracted_files)}

FailedPaths == {failed_files[a].file : a \in 1..Len(failed_files)}

\* C3: a part that raises is in the failures list, the loop does not end
\* at it while parts remain, and when the run has returned every part after
\* it is in the success list or in the failures list.
C3_Isolation ==
    \A k \in 1..Len(hist) :
        ~hist[k].ok =>
            /\ hist[k].path \in FailedPaths
            /\ (pc = "loop" /\ done < Len(embedded_files)) => ~LoopDone
            /\ pc = "done" =>
                   \A j \in (k + 1)..Len(embedded_files) :
                       embedded_files[j] \in SuccessPaths \cup FailedPaths

\* a run that returned with a part written after a part that failed
C3_Witness ==
    /\ pc = "done"
    /\ \E k \in 1..Len(hist) :
           ~hist[k].ok /\ k < Len(hist) /\ hist[k + 1].ok /\ hist[Len(hist)].ok

\* C4: when the container opens, every embedded part has at most one
\* outcome, in one of the two lists, and exactly one when the run has
\* returned; then len(success) + len(failed) is the number of parts.
C4_OneOutcome ==
    zip.openable =>
        /\ \A k \in EmbeddedParts :
               LET path == zip.entries[k].path
                   n == Cardinality({a \in 1..Len(extracted_files) :
                                        extracted_files[a].original_path = path})
                        + Cardinality({a \in 1..Len(failed_files) :
                                          failed_files[a].file = path})
               IN  n <= 1 /\ (pc = "done" => n = 1)
        /\ pc = "done" =>
               Len(extracted_files) + Len(failed_files) = Cardinality(EmbeddedParts)

\* a run that returned with three parts, one of them failed, beside the
\* directory entry of ppt/embeddings/
C4_Witness ==
    /\ pc = "done" /\ zip.openable
    /\ Cardinality(EmbeddedParts) = 3
    /\ Len(failed_files) = 1 /\ Len(extracted_files) = 2
    /\ \E k \in 1..Len(zip.entries) : zip.entries[k].path = "ppt/embeddings/"

\* C5: when the container does not open, the run returns with no success
\* record, no file written, and one failure that names the container path.
C5_OpenFatal ==
    (pc = "done" /\ ~zip.openable) =>
        /\ extracted_files = <<>>
        /\ DOMAIN fs = PreExisting
        /\ Len(failed_files) = 1 /\ failed_files[1].file = pptx_path
        /\ result = [total |-> 1, extracted |-> 0, failed |-> 1]
        /\ hist = <<>>

\* a run on a container that does not open has returned, with files in the
\* output directory from before
C5_Witness == pc = "done" /\ ~zip.openable /\ PreExisting # {}

(***************************************************************************)
(* Notions of the naming claims: what a container declares about a part,   *)
(* read from its sidecars and slides as the package format defines them.   *)
(***************************************************************************)
\* the directory of a path, with its last separator
DirOf(path) == SubSeq(path, 1, LastIndexOf(path, "/"))

\* the part a sidecar belongs to: dir/_rels/name.rels belongs to dir/name
OwnerOf(sidecar_path) ==
    LET p == Replace(sidecar_path, "_rels/", "")
    IN  SubSeq(p, 1, Len(p) - 5)

\* a relationship target, resolved against the directory of the owning part
ResolveTarget(owner, target) ==
    LET dir == DirOf(owner)
    IN  IF StartsWith(target, "../")
        THEN DirOf(SubSeq(dir, 1, Len(dir) - 1)) \o From(target, 3)
        ELSE dir \o target

\* the display names the container declares for a part: the names of the
\* graphic frames of a slide whose OLE object refers, by relationship id, to
\* a relationship of that slide's sidecar with the part as its target
DeclaredHints(file_path) ==
    LET Owned == {x \in Range(zip.entries) \X Range(zip.entries) :
                     /\ x[1].xml.wellformed /\ x[2].xml.wellformed
                     /\ EndsWith(x[2].path, ".rels")
                     /\ OwnerOf(x[2].path) = x[1].path}
        Named(sl, sc) ==
            {f \in Range(sl.xml.shapes) :
                /\ f.tag = "graphicFrame" /\ f.oleObj
                /\ Truthy(f.name) /\ Truthy(f.rid)
                /\ \E r \in Range(sc.xml.rels) :
                       /\ Truthy(r.Id) /\ r.Id.v = f.rid.v
                       /\ Truthy(r.Target)
                       /\ ResolveTarget(sl.path, r.Target.v) = file_path}
    IN  UNION {{f.name.v : f \in Named(x[1], x[2])} : x \in Owned}

\* no relationship of the container has a target with the part's file name
Unreferenced(file_path) ==
    \A sc \in Range(zip.entries) :
        \A r \in Range(sc.xml.rels) :
            Truthy(r.Target) => Basename(r.Target.v) # Basename(file_path)

\* the extension detect_file_type gives the part
DetectedExt(file_path) == detect_file_type(ReadEntry(file_path), file_path).ext

\* C6: a generic-named part written by the run, for which the container
\* declares a display name through a slide relationship with a
\* slide-relative target, has that name as its output base name, with the
\* detected extension appended unless the name already ends with it.
C6_HintRename ==
    \A k \in 1..Len(hist) :
        (hist[k].ok /\ IsGeneric(Basename(hist[k].path))) =>
            \A n \in DeclaredHints(hist[k].path) :
                LET ext == DetectedExt(hist[k].path)
                IN  hist[k].base_name =
                        IF EndsWith(Lower(Strip(n)), ext) THEN Strip(n)
                        ELSE Strip(n) \o ext

\* C7: a generic-named part written by the run, that no relationship
\* refers to and whose bytes give no OLE root name, has as output base name
\* its own name with the .bin at the end replaced by the detected
\* extension, and its record tells no original name.
C7_GenericFallback ==
    \A k \in 1..Len(hist) :
        LET b == Basename(hist[k].path)
        IN  (/\ hist[k].ok /\ IsGeneric(b)
             /\ Unreferenced(hist[k].path)
             /\ ole_root_name(ReadEntry(hist[k].path)) = <<>>) =>
                /\ hist[k].base_name =
                       SubSeq(b, 1, Len(b) - 4) \o DetectedExt(hist[k].path)
                /\ RecordOf(k).original_name = UnknownName

\* C8: a generic-named part written by the run, that no relationship
\* refers to and whose bytes are an OLE compound file with a readable root
\* name, is recorded with that root name as its original name and is saved
\* under it.
C8_RootName ==
    \A k \in 1..Len(hist) :
        LET root == UnitsToString(ole_root_name(ReadEntry(hist[k].path)))
        IN  (/\ hist[k].ok /\ IsGeneric(Basename(hist[k].path))
             /\ Unreferenced(hist[k].path)
             /\ root # "") =>
                /\ RecordOf(k).original_name = root
                /\ StartsWith(hist[k].base_name, root)

\* C9 as stated, an extension being what os.path.splitext (line 174) finds:
\* a part written by the run whose name is not generic has its own name as
\* output base name, with the detected extension appended exactly when the
\* name has no extension.
C9_Original ==
    \A k \in 1..Len(hist) :
        LET b == Basename(hist[k].path)
        IN  (hist[k].ok /\ ~IsGeneric(b)) =>
                hist[k].base_name =
                    IF SplitExt(b)[2] = "" THEN b \o DetectedExt(hist[k].path)
                    ELSE b

\* C9, amended: a part written by the run whose name is not generic has
\* its own name as output base name, with the detected extension appended
\* exactly when the name holds no dot at all; a name with a dot is kept as
\* it is, whatever type was detected, and the record's original name is the
\* part's name.
C9_Amended ==
    \A k \in 1..Len(hist) :
        LET b == Basename(hist[k].path)
        IN  (hist[k].ok /\ ~IsGeneric(b)) =>
                /\ ~Contains(b, ".") => hist[k].base_name = b \o DetectedExt(hist[k].path)
                /\ Contains(b, ".") => hist[k].base_name = b
                /\ RecordOf(k).original_name = b

\* one run wrote a part named without a dot, with the detected extension
\* appended, and a part named image1.png whose detected type is .docx,
\* under its own name
C9_Witness ==
    /\ pc = "done"
    /\ \E k \in 1..Len(hist) :
           /\ hist[k].ok /\ hist[k].path = "ppt/embeddings/Sheet"
           /\ hist[k].base_name = "Sheet.xlsx"
    /\ \E k \in 1..Len(hist) :
           /\ hist[k].ok /\ hist[k].path = "xl/embeddings/image1.png"
           /\ DetectedExt(hist[k].path) = ".docx"
           /\ hist[k].base_name = "image1.png"

\* the Ids of a sidecar are different from one another
IdsUnique(rels) ==
    \A i, j \in 1..Len(rels) :
        (i # j /\ Truthy(rels[i].Id) /\ Truthy(rels[j].Id)) => rels[i].Id.v # rels[j].Id.v

\* C10: once the sidecars are parsed, every (Id, Target) pair of every
\* sidecar that parses and whose Ids are unique within it is in the result
\* of _parse_relationships, with its target under its Id, whatever another
\* sidecar holds under the same Id.
C10_Scoped ==
    pc # "start" =>
        \A sc \in Range(zip.entries) :
            (EndsWith(sc.path, ".rels") /\ sc.xml.wellformed /\ IdsUnique(sc.xml.rels)) =>
                \A r \in Range(sc.xml.rels) :
                    (Truthy(r.Id) /\ Truthy(r.Target)) =>
                        /\ DictHas(relationships, r.Id.v)
                        /\ DictGet(relationships, r.Id.v).target = r.Target.v

(***************************************************************************)
(* Notions of the claims about _parse_relationships.                       *)
(***************************************************************************)
\* the sidecars of the container that parse
GoodSidecars ==
    {sc \in Range(zip.entries) : EndsWith(sc.path, ".rels") /\ sc.xml.wellformed}

\* a Relationship element with an Id and a Target, neither empty
Complete(r) == Truthy(r.Id) /\ Truthy(r.Target)

\* C11: once the sidecars are parsed, every entry of the mapping is the
\* (Id, Target, Type) of a Relationship element that has both Id and Target,
\* so an element without one of them is in the mapping under no key; and
\* every element of a sidecar that has both still has its Id in the
\* mapping, whatever incomplete elements stand beside it.
C11_Dropped ==
    pc # "start" =>
        /\ \A i \in 1..Len(relationships) :
               \E sc \in GoodSidecars : \E r \in Range(sc.xml.rels) :
                   /\ Complete(r)
                   /\ relationships[i].key = r.Id.v
                   /\ relationships[i].value = [target |-> r.Target.v, type |-> r.Type]
        /\ \A sc \in GoodSidecars : \A r \in Range(sc.xml.rels) :
               Complete(r) => DictHas(relationships, r.Id.v)
        /\ \A sc \in GoodSidecars :
               (IdsUnique(sc.xml.rels)
                /\ \A other \in GoodSidecars : other # sc => other.xml.rels = <<>>) =>
                   \A r \in Range(sc.xml.rels) :
                       Complete(r) => DictGet(relationships, r.Id.v).target = r.Target.v

\* a sidecar that parses holds an element without Id, an element without
\* Target and an element with both, and the mapping holds one entry
C11_Witness ==
    /\ pc = "done"
    /\ \E sc \in GoodSidecars :
           /\ \E r \in Range(sc.xml.rels) : ~r.Id.has /\ Truthy(r.Target)
           /\ \E r \in Range(sc.xml.rels) : ~r.Target.has /\ Truthy(r.Id)
           /\ \E r \in Range(sc.xml.rels) : Complete(r)
    /\ Len(relationships) = 1

\* the logger's warnings and the handler's warnings of the run name the
\* entry
Warned(path) ==
    \/ \E i \in 1..Len(warnings) : warnings[i] = path
    \/ \E i \in 1..Len(logged) : logged[i] = path

\* the sidecars of the container that are no XML
BadSidecars ==
    {sc \in Range(zip.entries) : EndsWith(sc.path, ".rels") /\ ~sc.xml.wellformed}

\* C12: in a run on a container with a sidecar that does not parse, the
\* relationships of every other sidecar are resolved, the run returns with
\* an outcome for every embedded part, a record when nothing failed for the
\* part, and a warning that names the sidecar is among the run's warnings.
C12_Absorbed ==
    (pc = "done" /\ BadSidecars # {}) =>
        /\ \A sc \in GoodSidecars : \A r \in Range(sc.xml.rels) :
               Complete(r) => DictHas(relationships, r.Id.v)
        /\ Len(extracted_files) + Len(failed_files) = Cardinality(EmbeddedParts)
        /\ faults = 0 => failed_files = <<>>
        /\ \A sc \in BadSidecars : Warned(sc.path)

(***************************************************************************)
(* Type detection: the notions of C13 to C17.                              *)
(***************************************************************************)
\* the signatures of the table that are a prefix of the buffer
PrefixSignatures(file_data) ==
    {i \in 1..Len(file_signatures) : BufStartsWith(file_data, file_signatures[i].sig)}

\* bytes 4..7 of the buffer are "ftyp"
FtypAt4(file_data) ==
    /\ file_data.len >= 8
    /\ <<Byte(file_data, 4), Byte(file_data, 5), Byte(file_data, 6),
         Byte(file_data, 7)>> = <<102, 116, 121, 112>>

\* the buffer matches a magic-byte signature
SignatureFound(file_data) == PrefixSignatures(file_data) # {} \/ FtypAt4(file_data)

\* the extensions _detect_by_extension recognizes
RecognizedExtensions == type_descriptions \cup {"htm", "jpeg", "tiff", "mpeg"}

\* the path carries a recognized extension
Recognized(file_path) ==
    /\ file_path # ""
    /\ From(SplitExt(Lower(file_path))[2], 1) \in RecognizedExtensions

\* the sampled prefix: its length, the code points decoded from it, and the
\* printable or whitespace ones among them
SampleLen(file_data) == Min({1024, file_data.len})

Decoded(file_data) ==
    SampleLen(file_data)
    - Cardinality({i \in DOMAIN file_data.bytes :
                      i < SampleLen(file_data) /\ file_data.bytes[i] >= 128})

Printable(file_data) ==
    Cardinality({i \in DOMAIN file_data.bytes :
                    i < SampleLen(file_data) /\ PrintableOrSpace(file_data.bytes[i])})

\* at least 70% of the decoded code points are printable or whitespace
SeventyPercent(file_data) ==
    Decoded(file_data) > 0 /\ 10 * Printable(file_data) >= 7 * Decoded(file_data)

\* the format families a triple can carry as its extension
Families ==
    ({file_signatures[i].type : i \in 1..Len(file_signatures)}
        \ {"zip_based", "ole_compound", "wav_or_avi"})
    \cup type_descriptions
    \cup {"html", "jpg", "tif", "mpg", "zip", "ole", "wav", "avi", "riff", "bin"}

UnknownTriple == Triple(".bin", "desc:unknown", "application/octet-stream")

\* C13: every call of detect_file_type returns a triple of an extension of
\* a format family, a description and a MIME type, whatever the buffer and
\* the path; a buffer that matches no signature, under a path without
\* recognized extension, whose sample is not text, gets the unknown type
\* ('.bin', application/octet-stream).
C13_Total ==
    detected # <<>> =>
        /\ DOMAIN detected = {"ext", "desc", "mime"}
        /\ detected.ext \in {"." \o t : t \in Families}
        /\ detected.desc # ""
        /\ detected.mime # ""
        /\ (/\ ~SignatureFound(call_data)
            /\ ~Recognized(call_path)
            /\ ~SeventyPercent(call_data))
           => detected = UnknownTriple

\* a call on bytes that carry the ZIP signature and do not open as an
\* archive has returned
C13_Witness ==
    /\ detected # <<>>
    /\ BufStartsWith(call_data, <<80, 75, 3, 4>>)
    /\ ~call_data.nested.ok
    /\ call_data.len > 4
    /\ detected.ext = ".zip"

\* a call on the empty buffer under no path has returned the unknown type
C13_WitnessEmpty ==
    /\ detected = UnknownTriple
    /\ call_data.len = 0
    /\ call_path = ""

\* C14: the family _detect_by_signature returns is the family of the longest
\* signature of the table that is a prefix of the buffer; when no signature
\* of the table is a prefix, it is mp4 if bytes 4..7 are "ftyp" and no match
\* otherwise.
C14_LongestPrefix ==
    detected # <<>> =>
        LET M == PrefixSignatures(call_data)
            longest == CHOOSE i \in M : \A j \in M :
                           Len(file_signatures[j].sig) <= Len(file_signatures[i].sig)
        IN  IF M # {} THEN signature_type = file_signatures[longest].type
            ELSE signature_type = (IF FtypAt4(call_data) THEN "mp4" ELSE "")

\* a buffer two signatures of different length are a prefix of has been
\* matched
C14_Witness ==
    /\ detected # <<>>
    /\ \E i, j \in PrefixSignatures(call_data) :
           Len(file_signatures[i].sig) < Len(file_signatures[j].sig)
    /\ signature_type = "rtf"

\* a buffer no signature of the table is a prefix of, with "ftyp" at
\* offset 4, has been matched
C14_WitnessFtyp ==
    /\ detected # <<>>
    /\ PrefixSignatures(call_data) = {}
    /\ FtypAt4(call_data)
    /\ signature_type = "mp4"

\* C15: when the buffer matches a magic-byte signature, the triple
\* detect_file_type returned for it is the triple it returns for the same
\* buffer under every other declared path.
C15_ContentOverPath ==
    (detected # <<>> /\ SignatureFound(call_data)) =>
        \A other \in Paths : detect_file_type(call_data, other) = detected

\* PNG bytes declared as report.docx have been detected as PNG
C15_Witness ==
    /\ detected # <<>>
    /\ SignatureFound(call_data)
    /\ call_path = "ppt/embeddings/report.docx"
    /\ detected.ext = ".png"

\* the buffer starts with one of the ZIP signatures
ZipSignature(file_data) ==
    \E i \in PrefixSignatures(file_data) : file_signatures[i].type = "zip_based"

\* the bytes open as an archive that lists the name
Lists(file_data, name) ==
    file_data.nested.ok /\ name \in Range(file_data.nested.names)

\* the archive's [Content_Types].xml is listed, reads, and holds the marker
Mentions(file_data, marker) ==
    /\ Lists(file_data, "[Content_Types].xml")
    /\ Contains(file_data.nested.content_types, marker)

\* the claim as stated: bytes with a ZIP signature are .docx, .xlsx or
\* .pptx by the first of word/document.xml, xl/workbook.xml and
\* ppt/presentation.xml the archive lists, and .zip when it lists none of
\* them or does not open.
C16_Original ==
    (detected # <<>> /\ ZipSignature(call_data)) =>
        detected.ext =
            IF Lists(call_data, "word/document.xml") THEN ".docx"
            ELSE IF Lists(call_data, "xl/workbook.xml") THEN ".xlsx"
            ELSE IF Lists(call_data, "ppt/presentation.xml") THEN ".pptx"
            ELSE ".zip"

\* C16: bytes with a ZIP signature are .docx, .xlsx or .pptx by the first
\* of word/document.xml, xl/workbook.xml and ppt/presentation.xml the
\* archive lists; when it lists none of them, by the first of the markers
\* wordprocessingml, spreadsheetml and presentationml its
\* [Content_Types].xml holds; and .zip when that gives nothing either or
\* the bytes do not open.
C16_Amended ==
    (detected # <<>> /\ ZipSignature(call_data)) =>
        detected.ext =
            IF Lists(call_data, "word/document.xml") THEN ".docx"
            ELSE IF Lists(call_data, "xl/workbook.xml") THEN ".xlsx"
            ELSE IF Lists(call_data, "ppt/presentation.xml") THEN ".pptx"
            ELSE IF Mentions(call_data, "wordprocessingml") THEN ".docx"
            ELSE IF Mentions(call_data, "spreadsheetml") THEN ".xlsx"
            ELSE IF Mentions(call_data, "presentationml") THEN ".pptx"
            ELSE ".zip"

\* an archive that lists word/document.xml and xl/workbook.xml has been
\* detected as .docx
C16_Witness ==
    /\ detected # <<>>
    /\ ZipSignature(call_data)
    /\ Lists(call_data, "word/document.xml")
    /\ Lists(call_data, "xl/workbook.xml")
    /\ detected.ext = ".docx"

\* an archive without characteristic part whose [Content_Types].xml holds
\* two markers has been detected by the first of them
C16_WitnessMarkers ==
    /\ detected # <<>>
    /\ ZipSignature(call_data)
    /\ call_data.nested.names = <<"[Content_Types].xml">>
    /\ Mentions(call_data, "spreadsheetml")
    /\ Mentions(call_data, "presentationml")
    /\ detected.ext = ".xlsx"

\* archives without anything to tell them by, and bytes that do not open,
\* have been detected as .zip
C16_WitnessZip ==
    /\ detected # <<>>
    /\ ZipSignature(call_data)
    /\ ~call_data.nested.ok
    /\ detected = Triple(".zip", "desc:zip", "mime:zip")

\* C17: a buffer that matches no signature, under a path without recognized
\* extension, is text exactly when at least 70% of the code points decoded
\* from its sample of at most 1024 bytes are printable or whitespace, a
\* sample at exactly 70% included; otherwise, and for the empty sample, it
\* is of the unknown type.
C17_Threshold ==
    (detected # <<>> /\ ~SignatureFound(call_data) /\ ~Recognized(call_path)) =>
        IF SeventyPercent(call_data)
        THEN detected = Triple(".txt", "desc:txt", "mime:txt")
        ELSE detected = UnknownTriple

(***************************************************************************)
(* Name hints: the notions of C18 to C20.                                  *)
(***************************************************************************)
\* the name is a token "Object N" for an ordinal N
IsObjectN(name) ==
    /\ StartsWith(name, "Object ")
    /\ Len(name) > 7
    /\ \A k \in 8..Len(name) : Contains(Digits, Char(name, k))

\* the slides of the container that parse, in namelist order
ParsedSlides ==
    SelectSeq(zip.entries,
              LAMBDA e : /\ StartsWith(e.path, "ppt/slides/slide")
                         /\ EndsWith(e.path, ".xml") /\ e.xml.wellformed)

\* the frame encloses an OLE object with a relationship id and carries a
\* name of its own that is no "Object N"
NamesObject(f) ==
    /\ f.tag = "graphicFrame" /\ f.oleObj /\ Truthy(f.rid)
    /\ f.cNvPr /\ Truthy(f.name) /\ ~IsObjectN(f.name.v)

\* the candidates of the enclosing-frame heuristic, [key, value] for
\* relationship id and name, in slide order
RECURSIVE FrameCandidates(_)
FrameCandidates(slides) ==
    IF slides = <<>> THEN <<>>
    ELSE LET named == SelectSeq(Head(slides).xml.shapes, NamesObject)
         IN  [i \in 1..Len(named) |-> [key |-> named[i].rid.v, value |-> named[i].name.v]]
             \o FrameCandidates(Tail(slides))

\* C18: for every relationship id that frames name, in one slide or in
\* several, the name kept in the mapping is the one of the first such frame
\* in slide order; a later candidate never replaces it.
C18_FirstKept ==
    pc = "done" =>
        LET c == FrameCandidates(ParsedSlides)
        IN  \A i \in 1..Len(c) :
                LET first == Min({j \in 1..i : c[j].key = c[i].key})
                IN  /\ DictHas(ole_names, c[i].key)
                    /\ DictGet(ole_names, c[i].key) = c[first].value

\* C19: no value of the mapping _parse_slide_xml_for_ole_names returns is a
\* token "Object N", for any ordinal N.
C19_NoPlaceholder ==
    pc # "start" => \A i \in 1..Len(ole_names) : ~IsObjectN(ole_names[i].value)

\* a slide that parses holds a frame named "Object N", N not 1, around an
\* OLE object with a relationship id, and the scan has recorded a name for
\* another frame
C19_Witness ==
    /\ pc = "done"
    /\ ole_names # <<>>
    /\ \E i \in 1..Len(ParsedSlides) : \E f \in Range(ParsedSlides[i].xml.shapes) :
           /\ f.tag = "graphicFrame" /\ f.oleObj /\ Truthy(f.rid)
           /\ f.cNvPr /\ Truthy(f.name)
           /\ IsObjectN(f.name.v) /\ f.name.v # "Object 1"

\* the slides of the container that do not parse or in which a heuristic
\* raises
TroubledSlides ==
    {e \in Range(zip.entries) :
        /\ StartsWith(e.path, "ppt/slides/slide") /\ EndsWith(e.path, ".xml")
        /\ (~e.xml.wellformed \/ Method3Raises(e.xml.shapes))}

\* no frame of a slide that parses names an id that a relationship with the
\* part's file name as target declares
NoHintSurvives(file_path) ==
    \A sc \in GoodSidecars : \A r \in Range(sc.xml.rels) :
        (Complete(r) /\ Basename(r.Target.v) = Basename(file_path)) =>
            \A c \in Range(FrameCandidates(ParsedSlides)) : c.key # r.Id.v

\* C20: in a run on a container with a slide that does not parse or in
\* which a heuristic raises, every id that a frame of a parsing slide names
\* (the slide in which the heuristic raised included) has one of these
\* names in the mapping, the run returns with an outcome for every embedded
\* part, a record when nothing failed for the part, and a generic-named
\* part for which no hint survives is saved under its generic name with the
\* detected extension.
C20_Tolerant ==
    (pc = "done" /\ zip.openable /\ TroubledSlides # {}) =>
        LET c == FrameCandidates(ParsedSlides)
        IN  /\ \A i \in 1..Len(c) :
                   /\ DictHas(ole_names, c[i].key)
                   /\ \E j \in 1..Len(c) :
                          c[j].key = c[i].key /\ c[j].value = DictGet(ole_names, c[i].key)
            /\ result # <<>>
            /\ Len(extracted_files) + Len(failed_files) = Cardinality(EmbeddedParts)
            /\ faults = 0 => failed_files = <<>>
            /\ \A k \in 1..Len(hist) :
                   LET b == Basename(hist[k].path)
                   IN  (/\ hist[k].ok /\ IsGeneric(b)
                        /\ NoHintSurvives(hist[k].path)
                        /\ ole_root_name(ReadEntry(hist[k].path)) = <<>>) =>
                           hist[k].base_name =
                               SubSeq(b, 1, Len(b) - 4) \o DetectedExt(hist[k].path)

\* a run on a container with a slide that does not parse and a slide in
\* which a heuristic raised has kept the name found in the latter, and has
\* extracted three parts, one of them under its generic name
C20_Witness ==
    /\ pc = "done"
    /\ \E e \in TroubledSlides : ~e.xml.wellformed
    /\ \E e \in TroubledSlides :
           /\ e.xml.wellformed
           /\ \E f \in Range(e.xml.shapes) :
                  NamesObject(f) /\ DictHas(ole_names, f.rid.v)
                  /\ DictGet(ole_names, f.rid.v) = f.name.v
    /\ Len(extracted_files) = 3
    /\ \E k \in 1..Len(hist) :
           /\ hist[k].ok /\ NoHintSurvives(hist[k].path)
           /\ hist[k].base_name = "oleObject3.doc"

(***************************************************************************)
(* The OLE root-name read: the notions of C21.                             *)
(***************************************************************************)
\* N, the value of header bytes 48..51
DirSector == LE32(ole_data, 48)

\* the 128-byte entry at offset (N + 1) * 512 lies inside the buffer
EntryFits == ole_data.len >= 640 /\ DirSector <= (ole_data.len - 640) \div sector_size

\* the offset of the entry and its name-length field
EntryOffset == (DirSector + 1) * sector_size

NameLength == LE16(ole_data, EntryOffset + 64)

\* C21: the read of a buffer that starts with the compound-file signature
\* slices only offsets inside the buffer; a name it yields is the code
\* units at offset (N + 1) * 512, N the little-endian value of bytes
\* 48..51, up to the terminator the name length counts; and it yields no
\* name when the entry at that offset does not lie inside the buffer (N out
\* of bounds included) or the name length is 0, 1, odd or greater than 64.
C21_Advisory ==
    (ole_read /\ BufStartsWith(ole_data, OleSignature)) =>
        /\ ole_sliced \subseteq 0..(ole_data.len - 1)
        /\ ole_name_read # <<>> =>
               /\ EntryFits
               /\ (EntryOffset..(EntryOffset + 127)) \subseteq ole_sliced
               /\ ole_name_read =
                      [k \in 1..((NameLength - 2) \div 2) |->
                          LE16(ole_data, EntryOffset + 2 * (k - 1))]
        /\ ~EntryFits => ole_name_read = <<>>
        /\ (EntryFits /\ (NameLength \in {0, 1} \/ NameLength % 2 = 1 \/ NameLength > 64))
               => ole_name_read = <<>>

\* the read of a buffer whose entry would start inside the buffer and end
\* beyond it, with a name and a plausible name length in the part that is
\* there, has yielded no name
C21_Witness ==
    /\ ole_read /\ BufStartsWith(ole_data, OleSignature)
    /\ ~EntryFits
    /\ DirSector < ole_data.len \div sector_size
    /\ EntryOffset + 66 <= ole_data.len
    /\ NameLength = 14
    /\ ole_name_read = <<>>

\* the read of a buffer whose entry lies inside has yielded its name
C21_WitnessName ==
    /\ ole_read /\ EntryFits /\ DirSector = 1
    /\ ole_name_read = <<66, 117, 100, 103, 101, 116>>

\* the read of a buffer whose entry lies inside and holds an odd name
\* length has yielded no name
C21_WitnessOdd ==
    /\ ole_read /\ BufStartsWith(ole_data, OleSignature) /\ EntryFits
    /\ NameLength = 13
    /\ ole_name_read = <<>>

(***************************************************************************)
(* Save failures and the files of a run: the notions of C25, C27 and C28.  *)
(***************************************************************************)
\* the files the run created
Created == {p \in DOMAIN fs : fs[p].by # 0}

\* the place of part k's failure among the failures of the run
FailureIndex(k) == Cardinality({j \in 1..k : ~hist[j].ok})

\* part k was written and the file has another size than the part
SizeMismatch(k) ==
    /\ hist[k].created # ""
    /\ fs[hist[k].created].size # ReadEntry(hist[k].path).len

\* C25: a part whose written file has another size than the part has no
\* success record, has a failure record, and the code the error handler
\* kept for it is that of ErrorCode.SAVE_FAILED, E204.
C25_SaveFailed ==
    \A k \in 1..Len(hist) :
        SizeMismatch(k) =>
            /\ ~hist[k].ok
            /\ hist[k].path \notin SuccessPaths
            /\ hist[k].path \in FailedPaths
            /\ errors[FailureIndex(k)] = "E204"

\* C27: no step changes or removes a file that is in the output directory,
\* one that was there before the run included, so every path written did
\* not exist when the step chose it; and the path of a written part is one
\* of the names base, base_1, ..., base_n of its base name with n at most
\* the number of files in the directory when the part was reached, which is
\* where the collision loop ends.
C27_NoOverwrite ==
    [][/\ \A p \in DOMAIN fs : p \in DOMAIN fs' /\ fs'[p] = fs[p]
       /\ \A k \in 1..Len(hist') :
              hist'[k].created # "" =>
                  \E n \in 0..Cardinality(DOMAIN fs) :
                      hist'[k].created = NthName(hist'[k].base_name, n)]_vars

\* a run in a directory that held out/image1.png has written two parts of
\* that base name beside it and has left the file as it was
C27_Witness ==
    /\ pc = "done"
    /\ "out/image1.png" \in PreExisting
    /\ fs["out/image1.png"] = [size |-> 7, by |-> 0]
    /\ \E j, k \in 1..Len(hist) :
           /\ j < k /\ hist[j].ok /\ hist[k].ok
           /\ hist[j].base_name = "image1.png" /\ hist[k].base_name = "image1.png"
           /\ hist[j].created = "out/image1_1.png"
           /\ hist[k].created = "out/image1_2.png"

\* C28: when the run has returned, every file it created is the output
\* path of exactly one success record, a failed part has left no file, and
\* every written part has the first name of its sequence that is neither a
\* file from before the run nor the file of an earlier written part.
C28_NoOrphan ==
    pc = "done" =>
        /\ \A p \in Created :
               Cardinality({a \in 1..Len(extracted_files) :
                               extracted_files[a].output_path = p}) = 1
        /\ \A k \in 1..Len(hist) : ~hist[k].ok => hist[k].created = ""
        /\ \A k \in 1..Len(hist) :
               hist[k].ok =>
                   hist[k].created =
                       FreePath(PreExisting \cup {hist[j].created : j \in {i \in 1..(k - 1) : hist[i].ok}},
                                hist[k].base_name)

(***************************************************************************)
(* PPTExtractor.extract_embedded_objects, called on one instance: the      *)
(* validation of lines 59-73, the dispatch of lines 78-81, the run of      *)
(* _extract_from_pptx as above, and the returns of lines 83 and 86-94.     *)
(***************************************************************************)
MaxCalls == 2

\* the files ppt_path can name: [name, exists, size]; the one named
\* pptx_path is the container zip
PptFiles ==
    { [name |-> pptx_path, exists |-> TRUE, size |-> 4096],
      [name |-> "old.ppt", exists |-> TRUE, size |-> 4096],
      [name |-> "deck.txt", exists |-> TRUE, size |-> 4096],
      [name |-> "missing.pptx", exists |-> FALSE, size |-> 0] }

\* what shutil.disk_usage(output_dir) does: it raises, or returns with
\* these free bytes
DiskStates ==
    { [raises |-> TRUE, free |-> 0],
      [raises |-> FALSE, free |-> 0],
      [raises |-> FALSE, free |-> 8192] }

\* raise PPTExtractorError(message, code)
PPTExtractorError(code) == [type |-> "PPTExtractorError", code |-> code]

\* validate_file_path(file_path, must_exist=True) for regular, readable
\* files: the exception it raises, <<>> when it returns
validate_file_path(file) ==
    IF file.name = "" THEN <<PPTExtractorError("E001")>>
    ELSE IF ~file.exists THEN <<PPTExtractorError("E001")>>
    ELSE <<>>

\* check_disk_space(path, required_bytes): the exception that leaves it,
\* <<>> when it returns.  The handler of line 339 catches the
\* PPTExtractorError of line 335 as well, and raises only for an exception
\* that is not one.
check_disk_space(disk, required_bytes) ==
    LET e == IF disk.raises THEN <<Exception("OSError")>>
             ELSE IF disk.free < required_bytes THEN <<PPTExtractorError("E302")>>
             ELSE <<>>
    IN  IF e # <<>> /\ e[1].type # "PPTExtractorError"
        THEN <<PPTExtractorError("E999")>>
        ELSE <<>>

\* lines 59-73: the exception the validation raises, <<>> for none
Rejection(file, disk) ==
    IF validate_file_path(file) # <<>> THEN validate_file_path(file)
    ELSE IF ~(EndsWith(Lower(file.name), ".pptx") \/ EndsWith(Lower(file.name), ".ppt"))
    THEN <<PPTExtractorError("E004")>>
    ELSE check_disk_space(disk, file.size * 2)

\* a returned dict.  stats is TRUE when the dict has the key 'stats'; its
\* value is then self.stats itself, the one dict of the instance, so what
\* a reader finds under the key is the current value of stats.  seen is
\* the value self.stats had at the return.
ResultDict(success, failed, summary, with_stats) ==
    [success |-> success, failed |-> failed, summary |-> summary,
     stats |-> with_stats, seen |-> stats]

\* the parts the container of a call of extract_embedded_objects draws from
CallPool == {Ole1, Image1}

InitCalls ==
    \E openable \in BOOLEAN :
      \E parts \in SeqsUpTo(CallPool, MaxParts) :
        /\ zip = [openable |-> openable,
                  entries |-> IF openable THEN FixedEntries \o parts ELSE <<>>]
        /\ fs = <<>>
        /\ pc = "idle"
        /\ embedded_files = <<>>
        /\ relationships = <<>>
        /\ ole_names = <<>>
        /\ done = 0
        /\ extracted_files = <<>>
        /\ failed_files = <<>>
        /\ stats = [total_files_found |-> 0, total_files_extracted |-> 0,
                    total_files_failed |-> 0, total_size_extracted |-> 0]
        /\ errors = <<>>
        /\ result = <<>>
        /\ faults = 0
        /\ hist = <<>>
        /\ warnings = <<>>
        /\ logged = <<>>
        /\ call_data = Empty
        /\ call_path = ""
        /\ detected = <<>>
        /\ signature_type = ""
        /\ ole_data = Empty
        /\ ole_read = FALSE
        /\ ole_name_read = <<>>
        /\ ole_sliced = {}
        /\ calls = <<>>
        /\ returned = <<>>
        /\ runs = <<>>
        /\ smart = <<>>

\* lines 100-101 with the two lists kept on the instance and never emptied
EnterRun_keeping_lists ==
    /\ pc' = "start"
    /\ UNCHANGED <<extracted_files, failed_files>>
    /\ embedded_files' = <<>>
    /\ relationships' = <<>>
    /\ ole_names' = <<>>
    /\ done' = 0
    /\ result' = <<>>
    /\ hist' = <<>>

\* line 79 and lines 100-101: _extract_from_pptx is entered, its locals are
\* new
EnterRun ==
    /\ pc' = "start"
    /\ extracted_files' = <<>>
    /\ failed_files' = <<>>
    /\ embedded_files' = <<>>
    /\ relationships' = <<>>
    /\ ole_names' = <<>>
    /\ done' = 0
    /\ result' = <<>>
    /\ hist' = <<>>

\* lines 57-81 and 86-94: the call up to the return of lines 86-94 when the
\* validation raises, up to the return of _extract_from_ppt for a .ppt
\* file, and up to the entry of _extract_from_pptx (lines 100-101) for a
\* .pptx file.  self.stats is not set back (lines 37-44 run once, in
\* __init__).  The files in the output directory are from before the run
\* that begins.  The state of the disk is an input of the calls that get
\* as far as check_disk_space only.
ExtractEmbeddedObjects ==
    /\ pc = "idle" /\ Len(calls) < MaxCalls
    /\ \E file \in PptFiles :
        \E disk \in IF Rejection(file, [raises |-> TRUE, free |-> 0]) = Rejection(file, [raises |-> FALSE, free |-> 8192])
                     THEN {[raises |-> FALSE, free |-> 8192]}
                     ELSE DiskStates :
         LET e == Rejection(file, disk)
         IN  /\ calls' = Append(calls, [ppt_path |-> file.name, size |-> file.size,
                                        disk |-> disk, dir |-> DOMAIN fs,
                                        entered |-> e = <<>> /\ file.name = pptx_path])
             /\ IF e # <<>>
                THEN /\ errors' = Append(errors, handle_error(e[1]))
                     /\ returned' = Append(returned,
                            ResultDict(<<>>, <<[file |-> file.name]>>,
                                       [total |-> 0, extracted |-> 0, failed |-> 1], TRUE))
                     /\ UNCHANGED <<fs, pc, embedded_files, relationships, ole_names,
                                    done, extracted_files, failed_files, result, hist>>
                ELSE IF EndsWith(Lower(file.name), ".pptx")
                THEN /\ EnterRun
                     /\ fs' = [p \in DOMAIN fs |-> [fs[p] EXCEPT !.by = 0]]
                     /\ UNCHANGED <<errors, returned>>
                ELSE /\ returned' = Append(returned,
                            ResultDict(<<>>, <<[file |-> file.name]>>,
                                       [total |-> 1, extracted |-> 0, failed |-> 1], FALSE))
                     /\ UNCHANGED <<fs, pc, embedded_files, relationships, ole_names,
                                    done, extracted_files, failed_files, result, hist,
                                    errors>>
    /\ UNCHANGED <<zip, stats, faults, warnings, logged, detect_vars, ole_vars, race_vars, smart_vars>>

\* lines 82-83: the dict of _extract_from_pptx (lines 233-245) is returned
Return ==
    /\ pc = "done"
    /\ returned' = Append(returned,
                          ResultDict(extracted_files, failed_files, result, TRUE))
    /\ pc' = "idle"
    /\ UNCHANGED <<zip, fs, embedded_files, relationships, ole_names, done,
                   extracted_files, failed_files, stats, errors, result, faults,
                   hist, warnings, logged, detect_vars, ole_vars, calls, race_vars, smart_vars>>

\* between two calls the files are removed from the directory that
\* os.path.exists (line 171) will look into
ClearOutput ==
    /\ pc = "idle" /\ returned # <<>> /\ Len(calls) < MaxCalls
    /\ fs # <<>>
    /\ fs' = <<>>
    /\ UNCHANGED <<zip, pc, embedded_files, relationships, ole_names, done,
                   extracted_files, failed_files, stats, errors, result, faults,
                   hist, warnings, logged, detect_vars, ole_vars, call_vars, race_vars, smart_vars>>

NextCalls ==
    \/ ExtractEmbeddedObjects \/ Return \/ ClearOutput
    \/ OpenFails \/ OpenAndScan \/ ReadFails \/ SaveFails \/ ExtractPart \/ Finish

SpecCalls == InitCalls /\ [][NextCalls]_vars

(***************************************************************************)
(* The calls on one instance: the notions of C22, C24, C26 and C29.        *)
(***************************************************************************)
\* call i ran _extract_from_pptx and has returned
IsRun(i) == i \in 1..Len(returned) /\ calls[i].entered

\* the sum of the sizes of the parts in a success list
RECURSIVE SizeSum(_)
SizeSum(success) ==
    IF success = <<>> THEN 0 ELSE Head(success).size + SizeSum(Tail(success))

\* the failure records of a result that are records of parts
PartFailures(i) ==
    SelectSeq(returned[i].failed, LAMBDA f : f.file # calls[i].ppt_path)

\* C22: when a call that ran an extraction has returned and no later call
\* has begun, the statistics under its result's key 'stats' count the parts
\* of that run only, and what is under the key 'stats' of every earlier
\* result is what was there when that result was returned.
C22_RunScoped ==
    (pc = "idle" /\ Len(calls) = Len(returned) /\ returned # <<>>) =>
        LET n == Len(returned)
        IN  /\ (IsRun(n) /\ returned[n].stats) =>
                   /\ stats.total_files_extracted = Len(returned[n].success)
                   /\ stats.total_files_failed = Len(PartFailures(n))
                   /\ stats.total_size_extracted = SizeSum(returned[n].success)
            /\ \A i \in 1..(n - 1) : returned[i].stats => stats = returned[i].seen

\* the output path a result gives for a part, "" when it has no success
\* record for it
OutputPathIn(r, original_path) ==
    LET S == {a \in 1..Len(r.success) : r.success[a].original_path = original_path}
    IN  IF S = {} THEN "" ELSE r.success[Min(S)].output_path

\* the output paths of a result
OutputPaths(r) == {r.success[a].output_path : a \in 1..Len(r.success)}

C24_WitnessBeside ==
    /\ Len(returned) = 2 /\ IsRun(1) /\ IsRun(2)
    /\ calls[2].dir = {"out/oleObject1.doc", "out/image1.png"}
    /\ OutputPaths(returned[1]) = calls[2].dir
    /\ OutputPaths(returned[2]) = {"out/oleObject1_1.doc", "out/image1_1.png"}

\* C26: in every returned dict summary.total is summary.extracted +
\* summary.failed, summary.extracted is the length of the success list and
\* summary.failed the length of the failed list.
C26_SummaryConsistent ==
    \A i \in 1..Len(returned) :
        LET r == returned[i]
        IN  /\ r.summary.total = r.summary.extracted + r.summary.failed
            /\ r.summary.extracted = Len(r.success)
            /\ r.summary.failed = Len(r.failed)

\* call i passed the tests before check_disk_space, and the free space the
\* check found was below the 2 x container size it requires
SpaceShort(i) ==
    /\ validate_file_path([name |-> calls[i].ppt_path, exists |-> TRUE,
                           size |-> calls[i].size]) = <<>>
    /\ calls[i].ppt_path \in {pptx_path, "old.ppt"}
    /\ ~calls[i].disk.raises
    /\ calls[i].disk.free < 2 * calls[i].size

\* C29: a call that finds less free space than twice the container size
\* does not enter the extraction, and returns the failure result of lines
\* 86-94 with the error DISK_SPACE_ERROR (E302) handled and no success
\* record.
C29_SpaceChecked ==
    \A i \in 1..Len(calls) :
        (SpaceShort(i) /\ calls[i].ppt_path = pptx_path) =>
            /\ i > Len(returned) => pc = "idle"
            /\ i <= Len(returned) =>
                   /\ returned[i].success = <<>>
                   /\ returned[i].summary = [total |-> 0, extracted |-> 0, failed |-> 1]
                   /\ \E k \in 1..Len(errors) : errors[k] = "E302"

(***************************************************************************)
(* Runs of _extract_from_pptx side by side on one output directory: each   *)
(* run goes through lines 168-176 (the path is chosen) and lines 178-181   *)
(* (the file is opened and written) on its own, and the steps of the runs  *)
(* interleave.                                                             *)
(***************************************************************************)
MaxRuns == 2

\* the parts the container of the runs draws from
RacePool == {Ole1, Image1, Image1Xl}

InitRace ==
    \E parts \in SeqsUpTo(RacePool, MaxParts), d \in InitialDirs :
        /\ zip = [openable |-> TRUE, entries |-> FixedEntries \o parts]
        /\ fs = d
        /\ pc = "loop"
        /\ embedded_files = SelectSeq(NameList, IsEmbedded)
        /\ relationships = _parse_relationships(zip.entries)
        /\ ole_names = _parse_slide_xml_for_ole_names(zip.entries)
        /\ runs = [r \in 1..MaxRuns |->
                      [at |-> "exists", done |-> 0, output_path |-> "", written |-> <<>>]]
        /\ done = 0
        /\ extracted_files = <<>>
        /\ failed_files = <<>>
        /\ stats = [total_files_found |-> 0, total_files_extracted |-> 0,
                    total_files_failed |-> 0, total_size_extracted |-> 0]
        /\ errors = <<>>
        /\ result = <<>>
        /\ faults = 0
        /\ hist = <<>>
        /\ warnings = <<>>
        /\ logged = <<>>
        /\ call_data = Empty
        /\ call_path = ""
        /\ detected = <<>>
        /\ signature_type = ""
        /\ ole_data = Empty
        /\ ole_read = FALSE
        /\ ole_name_read = <<>>
        /\ ole_sliced = {}
        /\ calls = <<>>
        /\ returned = <<>>
        /\ smart = <<>>

\* lines 135-176 in run r: the part is read and named, and the loop of
\* os.path.exists picks the path
ChoosePath(r) ==
    /\ runs[r].at = "exists" /\ runs[r].done < Len(embedded_files)
    /\ LET file_path == embedded_files[runs[r].done + 1]
           file_data == ReadEntry(file_path)
           type == detect_file_type(file_data, file_path)
           name == ResolveName(file_path, type.ext, relationships, ole_names)
       IN  runs' = [runs EXCEPT ![r].output_path = FreePath(DOMAIN fs, name.base_name),
                                ![r].at = "open"]
    /\ UNCHANGED <<zip, fs, pc, embedded_files, relationships, ole_names, done,
                   extracted_files, failed_files, stats, errors, result, faults,
                   hist, warnings, logged, detect_vars, ole_vars, call_vars, smart_vars>>

\* lines 178-181 in run r: open(output_path, 'wb') creates the file, or
\* truncates the one that is there, and the part is written
WritePart(r) ==
    /\ runs[r].at = "open"
    /\ LET file_data == ReadEntry(embedded_files[runs[r].done + 1])
       IN  fs' = (runs[r].output_path :> [size |-> file_data.len, by |-> runs[r].done + 1]) @@ fs
    /\ runs' = [runs EXCEPT ![r].written = Append(@, runs[r].output_path),
                            ![r].done = @ + 1,
                            ![r].at = "exists"]
    /\ UNCHANGED <<zip, pc, embedded_files, relationships, ole_names, done,
                   extracted_files, failed_files, stats, errors, result, faults,
                   hist, warnings, logged, detect_vars, ole_vars, call_vars, smart_vars>>

NextRace ==
    \/ \E r \in DOMAIN runs : ChoosePath(r)
    \/ \E r \in DOMAIN runs : WritePart(r)

SpecRace == InitRace /\ [][NextRace]_vars

\* C23: whatever the interleaving of the runs' exists tests and opens, no
\* two parts, of one run or of two, are written to the same path.
C23_NoRace ==
    \A r, q \in DOMAIN runs :
        \A a \in 1..Len(runs[r].written), b \in 1..Len(runs[q].written) :
            (r # q \/ a # b) => runs[r].written[a] # runs[q].written[b]

(***************************************************************************)
(* EnhancedPPTExtractor (enhanced_ppt_extractor.py): the smart naming of   *)
(* extract_with_smart_naming and the template of                           *)
(* create_filename_mapping_template.  extracted_files and failed_files are *)
(* the lists of the instance, fs the directory self.output_dir.            *)
(***************************************************************************)
\* the parts the container of an EnhancedPPTExtractor draws from
SmartPool == {Ole1, Ole2, Ole1Word, Sheet, Image1}

\* lines 40 and 180: [f for f in file_list if 'embeddings' in f.lower()]
embedding_files == SelectSeq(NameList, LAMBDA f : Contains(Lower(f), "embeddings"))

\* file_type_info[key] for a str key.  file_type_info is what
\* FileTypeDetector.detect_file_type returns, a tuple (extension,
\* description, MIME type) (file_type_detector.py 113-123), and a tuple
\* takes integers and slices as indices: the subscript raises TypeError,
\* whatever the key.
StrSubscript(file_type_info, key) == [raised |-> "TypeError", value |-> ""]

\* f"{n:02d}"
TwoDigits(n) == IF n < 10 THEN "0" \o ToString(n) ELSE ToString(n)

\* lines 200-209: the label of a type; "label:word" stands for the label of
\* line 201, "label:excel", "label:ppt" and "label:image" for those of
\* lines 203, 205 and 207
SmartLabel(file_type) ==
    IF file_type = "Microsoft Word Document" THEN "label:word"
    ELSE IF file_type = "Microsoft Excel Worksheet" THEN "label:excel"
    ELSE IF file_type = "Microsoft PowerPoint Presentation" THEN "label:ppt"
    ELSE IF Contains(Lower(file_type), "image") THEN "label:image"
    ELSE file_type

\* lines 214-219: the loop while os.path.exists(output_path); "_copy"
\* stands for the text between base name and counter
RECURSIVE SmartCollisionLoop(_, _, _, _, _)
SmartCollisionLoop(existing, base_name, extension, output_filename, counter) ==
    IF PathJoin(output_dir, output_filename) \in existing
    THEN SmartCollisionLoop(existing, base_name, extension,
                            base_name \o "_copy" \o ToString(counter) \o extension,
                            counter + 1)
    ELSE output_filename

\* lines 49-66: the entries of the template for embedding_files[i..]; an
\* entry whose try block raises is printed and left out
RECURSIVE MappingEntries(_, _)
MappingEntries(files, i) ==
    IF i > Len(files) THEN <<>>
    ELSE LET file_content == ReadEntry(files[i])
             file_type_info == detect_file_type(file_content, "")
             type == StrSubscript(file_type_info, "type")
             extension == StrSubscript(file_type_info, "extension")
             rest == MappingEntries(files, i + 1)
         IN  IF type.raised # "" \/ extension.raised # "" THEN rest
             ELSE <<[index |-> i, embedded_path |-> files[i],
                     detected_type |-> type.value,
                     detected_extension |-> extension.value,
                     current_name |-> Basename(files[i])]>> \o rest

InitSmart ==
    \E openable \in BOOLEAN, d \in InitialDirs :
      \E parts \in SeqsUpTo(SmartPool, MaxParts) :
        /\ zip = [openable |-> openable,
                  entries |-> IF openable THEN FixedEntries \o parts ELSE <<>>]
        /\ fs = d
        /\ pc = "start"
        /\ smart = [type_counters |-> <<>>, template |-> "none", mappings |-> <<>>,
                    returned |-> ""]
        /\ embedded_files = <<>>
        /\ relationships = <<>>
        /\ ole_names = <<>>
        /\ done = 0
        /\ extracted_files = <<>>
        /\ failed_files = <<>>
        /\ stats = [total_files_found |-> 0, total_files_extracted |-> 0,
                    total_files_failed |-> 0, total_size_extracted |-> 0]
        /\ errors = <<>>
        /\ result = <<>>
        /\ faults = 0
        /\ hist = <<>>
        /\ warnings = <<>>
        /\ logged = <<>>
        /\ call_data = Empty
        /\ call_path = ""
        /\ detected = <<>>
        /\ signature_type = ""
        /\ ole_data = Empty
        /\ ole_read = FALSE
        /\ ole_name_read = <<>>
        /\ ole_sliced = {}
        /\ calls = <<>>
        /\ returned = <<>>
        /\ runs = <<>>

\* create_filename_mapping_template, lines 27-82: the template is written
\* with the entries that did not raise, or the container does not open and
\* None is returned
CreateTemplate ==
    /\ pc \in {"start", "done"} /\ smart.template = "none"
    /\ smart' = IF zip.openable
                THEN [smart EXCEPT !.template = "written",
                                   !.mappings = MappingEntries(embedding_files, 1)]
                ELSE [smart EXCEPT !.template = "failed"]
    /\ UNCHANGED <<zip, fs, pc, embedded_files, relationships, ole_names, done,
                   extracted_files, failed_files, stats, errors, result, faults,
                   hist, warnings, logged, detect_vars, ole_vars, call_vars, race_vars>>

\* extract_with_smart_naming, lines 177-185: the container opens and the
\* parts are listed; or lines 247-249: it does not open and False is
\* returned
SmartOpen ==
    /\ pc = "start"
    /\ IF zip.openable
       THEN /\ embedded_files' = embedding_files
            /\ pc' = "loop"
            /\ smart' = [smart EXCEPT !.type_counters = <<>>]
       ELSE /\ pc' = "done"
            /\ smart' = [smart EXCEPT !.returned = "False"]
            /\ UNCHANGED embedded_files
    /\ UNCHANGED <<zip, fs, relationships, ole_names, done,
                   extracted_files, failed_files, stats, errors, result, faults,
                   hist, warnings, logged, detect_vars, ole_vars, call_vars, race_vars>>

\* lines 187-242: one part.  The try block runs up to the first subscript
\* that raises, and lines 236-242 record the part as failed; when none
\* raises the part is counted, named, written and recorded.
SmartPart ==
    /\ pc = "loop" /\ done < Len(embedded_files)
    /\ LET emb_file == embedded_files[done + 1]
           file_content == ReadEntry(emb_file)
           file_type_info == detect_file_type(file_content, "")
           file_type == StrSubscript(file_type_info, "type")
           extension == StrSubscript(file_type_info, "extension")
           counters == IF DictHas(smart.type_counters, file_type.value)
                       THEN DictSet(smart.type_counters, file_type.value,
                                    DictGet(smart.type_counters, file_type.value) + 1)
                       ELSE DictSet(smart.type_counters, file_type.value, 1)
           base_name == SmartLabel(file_type.value) \o "_"
                            \o TwoDigits(DictGet(counters, file_type.value))
           output_filename == SmartCollisionLoop(DOMAIN fs, base_name, extension.value,
                                                 base_name \o extension.value, 1)
           output_path == PathJoin(output_dir, output_filename)
       IN  IF file_type.raised # "" \/ extension.raised # ""
           THEN /\ failed_files' = Append(failed_files,
                                          [file |-> emb_file,
                                           error_type |-> IF file_type.raised # ""
                                                          THEN file_type.raised
                                                          ELSE extension.raised])
                /\ UNCHANGED <<fs, extracted_files, smart>>
           ELSE /\ smart' = [smart EXCEPT !.type_counters = counters]
                /\ fs' = (output_path :> [size |-> file_content.len, by |-> done + 1]) @@ fs
                /\ extracted_files' = Append(extracted_files,
                       [original_path |-> emb_file, output_path |-> output_path,
                        output_filename |-> output_filename,
                        file_type |-> file_type.value, file_size |-> file_content.len])
                /\ UNCHANGED failed_files
    /\ done' = done + 1
    /\ UNCHANGED <<zip, pc, embedded_files, relationships, ole_names,
                   stats, errors, result, faults,
                   hist, warnings, logged, detect_vars, ole_vars, call_vars, race_vars>>

\* lines 244-245: the report is printed and True is returned
SmartFinish ==
    /\ pc = "loop" /\ done = Len(embedded_files)
    /\ pc' = "done"
    /\ smart' = [smart EXCEPT !.returned = "True"]
    /\ UNCHANGED <<zip, fs, embedded_files, relationships, ole_names, done,
                   extracted_files, failed_files, stats, errors, result, faults,
                   hist, warnings, logged, detect_vars, ole_vars, call_vars, race_vars>>

NextSmart == CreateTemplate \/ SmartOpen \/ SmartPart \/ SmartFinish

SpecSmart == InitSmart /\ [][NextSmart]_vars

\* the description detect_file_type gives for part k of embedded_files, and
\* its extension
DetectedOf(k) == detect_file_type(ReadEntry(embedded_files[k]), "")

\* the place of part k among the parts of its detected type, in container
\* order
TypeCount(k) ==
    Cardinality({j \in 1..k : DetectedOf(j).desc = DetectedOf(k).desc})

\* C30: when extract_with_smart_naming has returned for a container that
\* opens, no part is in failed_files, every embedded part has its record in
\* extracted_files in container order, under a name that ends with _NN and
\* the detected extension, NN the two-digit count of the part among the
\* parts of its detected type; and a template that was written has one
\* mapping entry for each embedded part.
C30_SmartNaming ==
    (pc = "done" /\ zip.openable) =>
        /\ failed_files = <<>>
        /\ Len(extracted_files) = Len(embedded_files)
        /\ \A k \in 1..Len(extracted_files) :
               /\ extracted_files[k].original_path = embedded_files[k]
               /\ EndsWith(extracted_files[k].output_filename,
                           "_" \o TwoDigits(TypeCount(k)) \o DetectedOf(k).ext)
        /\ smart.template = "written" => Len(smart.mappings) = Len(embedded_files)

====
